---------------------------- MODULE Spec2Model ----------------------------
(***************************************************************************)
(* A model of the CZDB reader of sjzar/ips (format/czdb/sdk and the        *)
(* format/czdb wrapper).  The database image is modelled byte by byte: a   *)
(* sequence of bytes (0..255) with the capacity of the Go slice that holds *)
(* it.  Every operation of the reader is a function on the Reader record,  *)
(* translated from its Go source; the specifications at the end drive them *)
(* sequentially (Spec), on a family of databases with a key already set    *)
(* (SpecFind), and step by step from concurrent callers (SpecConc).        *)
(***************************************************************************)
EXTENDS Integers, Sequences, FiniteSets, TLC

(***************************************************************************)
(* Bounds of the model.                                                    *)
(***************************************************************************)
\* Number of index blocks of a generated database: 1..MaxBlocks.
MaxBlocks == 3
\* Index blocks per header entry of a generated database: 1..MaxGroup.
MaxGroup == 2
\* Random padding bytes between the encrypted metadata and the super part.
MaxPad == 1
\* Executions of Init counted by the ghost counter initRuns (it saturates).
MaxRuns == 3
\* Strings of the first array of a generated dictionary: 0..MaxColumns.
MaxColumns == 2

(***************************************************************************)
(* Program constants (sdk/const.go).                                       *)
(***************************************************************************)
HyperHeaderLength == 12
SuperPartLength == 17
HeaderBlockLength == 20
IPv4 == 0
IPv4Length == 4
IPv4IndexBlockLength == 13
IPv6 == 1
IPv6Length == 16
IPv6IndexBlockLength == 37
\* "DataNotFound" as bytes.
TempDataNotFound == <<68, 97, 116, 97, 78, 111, 116, 70, 111, 117, 110, 100>>

(***************************************************************************)
(* Bytes, slices and integers.                                             *)
(***************************************************************************)
Min(a, b) == IF a < b THEN a ELSE b
Max(a, b) == IF a > b THEN a ELSE b

\* n copies of byte b.
Rep(b, n) == [i \in 1..n |-> b]

(***************************************************************************)
(* Go's int (64 bits).  The integers that the reader takes from the image  *)
(* are 32 bits wide, and their sums do not fit the integers of the model   *)
(* checker: an int is kept as [hi, lo], the value hi * 65536 + lo with     *)
(* 0 <= lo < 65536.  The pair of a value is unique, so that = is equality  *)
(* of values.  Counters and lengths that the code bounds by a length of a  *)
(* slice are plain integers.                                               *)
(***************************************************************************)
\* The int of a plain integer, and the plain integer of an int that the
\* code has bounded.
Small(n) == [hi |-> n \div 65536, lo |-> n % 65536]
Val(x) == x.hi * 65536 + x.lo

IntZero == Small(0)

IntAdd(x, y) ==
    [hi |-> x.hi + y.hi + (x.lo + y.lo) \div 65536, lo |-> (x.lo + y.lo) % 65536]

IntNeg(x) == IF x.lo = 0 THEN [hi |-> -x.hi, lo |-> 0] ELSE [hi |-> -x.hi - 1, lo |-> 65536 - x.lo]

IntSub(x, y) == IntAdd(x, IntNeg(y))

IntLess(x, y) == x.hi < y.hi \/ (x.hi = y.hi /\ x.lo < y.lo)
IntLeq(x, y) == x = y \/ IntLess(x, y)

\* x * c for a plain integer c of at most 15 bits.
IntTimes(x, c) ==
    [hi |-> x.hi * c + (x.lo * c) \div 65536, lo |-> (x.lo * c) % 65536]

\* x / d for a plain integer d of 1 to 15 bits: Go's integer division
\* truncates toward zero.
IntQuoNat(x, d) ==
    [hi |-> x.hi \div d, lo |-> ((x.hi % d) * 65536 + x.lo) \div d]

GoDiv(x, d) == IF x.hi >= 0 THEN IntQuoNat(x, d) ELSE IntNeg(IntQuoNat(IntNeg(x), d))

\* bytes.Compare: lexicographic, a proper prefix is smaller.
RECURSIVE CompareFrom(_, _, _)
CompareFrom(a, b, i) ==
    IF i > Len(a) /\ i > Len(b) THEN 0
    ELSE IF i > Len(a) THEN -1
    ELSE IF i > Len(b) THEN 1
    ELSE IF a[i] < b[i] THEN -1
    ELSE IF a[i] > b[i] THEN 1
    ELSE CompareFrom(a, b, i + 1)

BytesCompare(a, b) == CompareFrom(a, b, 1)

\* binary.LittleEndian.Uint32 of four bytes, as an int.
Uint32LE(b) == [hi |-> b[3] + 256 * b[4], lo |-> b[1] + 256 * b[2]]

\* binary.LittleEndian.PutUint32 of the plain integer n >= 0, used to lay
\* images out.
PutUint32LE(n) ==
    <<n % 256, (n \div 256) % 256, (n \div 65536) % 256, (n \div 16777216) % 256>>

\* Bitwise exclusive or of two bytes.
RECURSIVE XorBits(_, _, _)
XorBits(a, b, n) ==
    IF n = 0 THEN 0
    ELSE (((a % 2) + (b % 2)) % 2) + 2 * XorBits(a \div 2, b \div 2, n - 1)

Xor8(a, b) == XorBits(a, b, 8)

\* s[lo:hi] of a Go slice with contents bytes and capacity cap, lo and hi
\* being ints: legal for 0 <= lo <= hi <= cap; the bytes between len and cap
\* are zero (io.ReadAll allocates the buffer zeroed and only writes what it
\* read).
SliceOK(cap, lo, hi) == IntLeq(IntZero, lo) /\ IntLeq(lo, hi) /\ IntLeq(hi, Small(cap))

\* The bytes of s[lo:hi] for plain integers lo and hi, and for ints that
\* SliceOK has admitted.
Slice(bytes, lo, hi) ==
    [i \in 1..(hi - lo) |-> IF lo + i <= Len(bytes) THEN bytes[lo + i] ELSE 0]

SliceAt(bytes, lo, hi) == Slice(bytes, Val(lo), Val(hi))

(***************************************************************************)
(* encoding/base64: StdEncoding.DecodeString on a string given as its      *)
(* bytes.  Carriage returns and line feeds are skipped, the length must be *)
(* a multiple of four, padding may only end the last quantum.              *)
(***************************************************************************)
B64Val(c) ==
    IF c >= 65 /\ c <= 90 THEN c - 65
    ELSE IF c >= 97 /\ c <= 122 THEN c - 71
    ELSE IF c >= 48 /\ c <= 57 THEN c + 4
    ELSE IF c = 43 THEN 62
    ELSE IF c = 47 THEN 63
    ELSE -1

RECURSIVE B64Strip(_)
B64Strip(s) ==
    IF s = <<>> THEN <<>>
    ELSE IF Head(s) = 10 \/ Head(s) = 13 THEN B64Strip(Tail(s))
    ELSE <<Head(s)>> \o B64Strip(Tail(s))

\* One quantum of four characters; last says whether it ends the input.
\* 61 is the padding character '='.
B64Quantum(q, last) ==
    LET v1 == B64Val(q[1])
        v2 == B64Val(q[2])
        v3 == B64Val(q[3])
        v4 == B64Val(q[4])
        b1 == v1 * 4 + v2 \div 16
        b2 == (v2 % 16) * 16 + v3 \div 4
        b3 == (v3 % 4) * 64 + v4
    IN  IF v1 < 0 \/ v2 < 0 THEN [ok |-> FALSE, bytes |-> <<>>]
        ELSE IF q[3] = 61
             THEN IF last /\ q[4] = 61 THEN [ok |-> TRUE, bytes |-> <<b1>>]
                  ELSE [ok |-> FALSE, bytes |-> <<>>]
        ELSE IF v3 < 0 THEN [ok |-> FALSE, bytes |-> <<>>]
        ELSE IF q[4] = 61
             THEN IF last THEN [ok |-> TRUE, bytes |-> <<b1, b2>>]
                  ELSE [ok |-> FALSE, bytes |-> <<>>]
        ELSE IF v4 < 0 THEN [ok |-> FALSE, bytes |-> <<>>]
        ELSE [ok |-> TRUE, bytes |-> <<b1, b2, b3>>]

RECURSIVE B64Quanta(_)
B64Quanta(s) ==
    IF s = <<>> THEN [ok |-> TRUE, bytes |-> <<>>]
    ELSE LET q == B64Quantum(SubSeq(s, 1, 4), Len(s) = 4)
             rest == B64Quanta(SubSeq(s, 5, Len(s)))
         IN  IF q.ok /\ rest.ok THEN [ok |-> TRUE, bytes |-> q.bytes \o rest.bytes]
             ELSE [ok |-> FALSE, bytes |-> <<>>]

\* [err, bytes]: err is "nil" or "CorruptInputError".
Base64Decode(s) ==
    LET t == B64Strip(s)
        d == IF Len(t) % 4 # 0 THEN [ok |-> FALSE, bytes |-> <<>>] ELSE B64Quanta(t)
    IN  IF d.ok THEN [err |-> "nil", bytes |-> d.bytes]
        ELSE [err |-> "CorruptInputError", bytes |-> <<>>]

(***************************************************************************)
(* Crypto primitives.  Their source is not among the files of src/; they   *)
(* follow the specification's section 4.2.  The block cipher is a toy one  *)
(* (each block is XORed with the leading 16 key bytes): what the reader    *)
(* needs of it is that the right key recovers the metadata and that a      *)
(* wrong key, a bad key length or bad padding do not.                      *)
(***************************************************************************)
BlockXor(text, key) == [i \in 1..Len(text) |-> Xor8(text[i], key[((i - 1) % 16) + 1])]

\* [err, data, blocks]: ECB decryption, then the padding is stripped; data
\* is the plaintext and blocks the decrypted blocks, padding included.
AesECBDecrypt(ct, key) ==
    IF Len(key) \notin {16, 24, 32}
    THEN [err |-> "ErrInvalidDatabase", data |-> <<>>, blocks |-> <<>>]
    ELSE IF Len(ct) = 0 \/ Len(ct) % 16 # 0
    THEN [err |-> "ErrInvalidDatabase", data |-> <<>>, blocks |-> <<>>]
    ELSE LET pt == BlockXor(ct, key)
             pad == pt[Len(pt)]
         IN  IF pad < 1 \/ pad > 16
             THEN [err |-> "ErrInvalidDatabase", data |-> <<>>, blocks |-> <<>>]
             ELSE [err |-> "nil", data |-> SubSeq(pt, 1, Len(pt) - pad), blocks |-> pt]

\* The slice that AesECBDecrypt returns has the plaintext as its length; its
\* capacity, and what lies between the two, is the business of the
\* implementation.  These are the bytes up to the capacity in the builds
\* there can be: a copy of the plaintext, a copy in an allocation rounded up
\* to a multiple of eight bytes (zeros follow), and a slice of the decrypted
\* blocks (the padding follows).
PlainBackings(dec) ==
    { dec.data, dec.data \o Rep(0, (8 - (Len(dec.data) % 8)) % 8), dec.blocks }

\* The key bytes as a repeating pad; a key of no bytes leaves the text as is.
XorDecrypt(ct, key) ==
    IF Len(key) = 0 THEN ct
    ELSE [i \in 1..Len(ct) |-> Xor8(ct[i], key[((i - 1) % Len(key)) + 1])]

(***************************************************************************)
(* net.IP (Go's standard library): an address is 4 or 16 bytes; nil is the *)
(* empty sequence.                                                         *)
(***************************************************************************)
v4InV6Prefix == <<0, 0, 0, 0, 0, 0, 0, 0, 0, 0, 255, 255>>

\* net.IPv4(a, b, c, d): the 16-byte IPv4-mapped form.
NetIPv4(a, b, c, d) == v4InV6Prefix \o <<a, b, c, d>>

\* net.IPv4zero and net.IPv6zero.
IPv4zero == NetIPv4(0, 0, 0, 0)
IPv6zero == Rep(0, 16)

\* ip.To4(): the 4-byte form of an IPv4 address, nil for anything else.
To4(ip) ==
    IF Len(ip) = 4 THEN ip
    ELSE IF Len(ip) = 16 /\ SubSeq(ip, 1, 12) = v4InV6Prefix THEN SubSeq(ip, 13, 16)
    ELSE <<>>

\* ip.To16(): the 16-byte form, nil for a wrong length.
To16(ip) ==
    IF Len(ip) = 4 THEN NetIPv4(ip[1], ip[2], ip[3], ip[4])
    ELSE IF Len(ip) = 16 THEN ip
    ELSE <<>>

\* net.IP.Equal: an IPv4 address equals its IPv4-mapped form.
IPEqual(ip, x) ==
    IF Len(ip) = Len(x) THEN ip = x
    ELSE IF Len(ip) = 4 /\ Len(x) = 16
         THEN SubSeq(x, 1, 12) = v4InV6Prefix /\ ip = SubSeq(x, 13, 16)
    ELSE IF Len(ip) = 16 /\ Len(x) = 4
         THEN SubSeq(ip, 1, 12) = v4InV6Prefix /\ SubSeq(ip, 13, 16) = x
    ELSE FALSE

\* ipnet.LastIPv4 (package ipnet is not among the files of src/): the last
\* IPv4 address, as the specification's scenario S3 gives it.
LastIPv4 == NetIPv4(255, 255, 255, 255)

(***************************************************************************)
(* github.com/vmihailenco/msgpack/v5, as far as ParseGeoInfo uses it: a    *)
(* decoder is a buffer and a position (the number of bytes consumed).      *)
(* Integers are big-endian; an int64 is kept as its eight bytes (two's     *)
(* complement, most significant first).  Running out of bytes or meeting a *)
(* code of another type is a decode error.                                 *)
(***************************************************************************)
\* The big-endian value of a length field of one, two or four bytes, as an
\* int.
BELen(b) ==
    LET p == Rep(0, 4 - Len(b)) \o b
    IN  [hi |-> 256 * p[1] + p[2], lo |-> 256 * p[3] + p[4]]

\* n bytes at position pos: [ok, bytes, pos].
ReadN(buf, pos, n) ==
    IF pos + n > Len(buf) THEN [ok |-> FALSE, bytes |-> <<>>, pos |-> pos]
    ELSE [ok |-> TRUE, bytes |-> SubSeq(buf, pos + 1, pos + n), pos |-> pos + n]

\* An integer of n bytes after the code, sign-extended when signed.
IntN(buf, pos, n, signed) ==
    LET rd == ReadN(buf, pos, n)
        fill == IF rd.ok /\ signed /\ rd.bytes[1] >= 128 THEN 255 ELSE 0
    IN  IF rd.ok THEN [err |-> "nil", val |-> Rep(fill, 8 - n) \o rd.bytes, pos |-> rd.pos]
        ELSE [err |-> "DecodeError", val |-> Rep(0, 8), pos |-> pos]

\* Decoder.DecodeInt64: [err, val, pos].
DecodeInt64(buf, pos) ==
    IF pos >= Len(buf) THEN [err |-> "DecodeError", val |-> Rep(0, 8), pos |-> pos]
    ELSE LET c == buf[pos + 1]
         IN  IF c = 192 THEN [err |-> "nil", val |-> Rep(0, 8), pos |-> pos + 1]
             ELSE IF c <= 127 THEN [err |-> "nil", val |-> Rep(0, 7) \o <<c>>, pos |-> pos + 1]
             ELSE IF c >= 224 THEN [err |-> "nil", val |-> Rep(255, 7) \o <<c>>, pos |-> pos + 1]
             ELSE IF c = 204 THEN IntN(buf, pos + 1, 1, FALSE)
             ELSE IF c = 205 THEN IntN(buf, pos + 1, 2, FALSE)
             ELSE IF c = 206 THEN IntN(buf, pos + 1, 4, FALSE)
             ELSE IF c = 207 THEN IntN(buf, pos + 1, 8, FALSE)
             ELSE IF c = 208 THEN IntN(buf, pos + 1, 1, TRUE)
             ELSE IF c = 209 THEN IntN(buf, pos + 1, 2, TRUE)
             ELSE IF c = 210 THEN IntN(buf, pos + 1, 4, TRUE)
             ELSE IF c = 211 THEN IntN(buf, pos + 1, 8, TRUE)
             ELSE [err |-> "DecodeError", val |-> Rep(0, 8), pos |-> pos]

\* A length of n bytes after the code: [err, n, pos], n an int.
LenN(buf, pos, n) ==
    LET rd == ReadN(buf, pos, n)
    IN  IF rd.ok THEN [err |-> "nil", n |-> BELen(rd.bytes), pos |-> rd.pos]
        ELSE [err |-> "DecodeError", n |-> IntZero, pos |-> pos]

\* Decoder.DecodeString: nil is the empty string; str and bin codes.
DecodeString(buf, pos) ==
    IF pos >= Len(buf) THEN [err |-> "DecodeError", str |-> <<>>, pos |-> pos]
    ELSE LET c == buf[pos + 1]
             ln == IF c = 192 THEN [err |-> "nil", n |-> IntZero, pos |-> pos + 1]
                   ELSE IF c >= 160 /\ c <= 191
                        THEN [err |-> "nil", n |-> Small(c - 160), pos |-> pos + 1]
                   ELSE IF c = 217 \/ c = 196 THEN LenN(buf, pos + 1, 1)
                   ELSE IF c = 218 \/ c = 197 THEN LenN(buf, pos + 1, 2)
                   ELSE IF c = 219 \/ c = 198 THEN LenN(buf, pos + 1, 4)
                   ELSE [err |-> "DecodeError", n |-> IntZero, pos |-> pos]
         IN  IF ln.err # "nil" THEN [err |-> "DecodeError", str |-> <<>>, pos |-> pos]
             ELSE IF IntLess(Small(Len(buf) - ln.pos), ln.n)
             THEN [err |-> "DecodeError", str |-> <<>>, pos |-> ln.pos]
             ELSE [err |-> "nil", str |-> ReadN(buf, ln.pos, Val(ln.n)).bytes,
                   pos |-> ln.pos + Val(ln.n)]

\* Decoder.DecodeArrayLen: [err, n, pos], n an int; nil is -1.
DecodeArrayLen(buf, pos) ==
    IF pos >= Len(buf) THEN [err |-> "DecodeError", n |-> IntZero, pos |-> pos]
    ELSE LET c == buf[pos + 1]
         IN  IF c = 192 THEN [err |-> "nil", n |-> Small(-1), pos |-> pos + 1]
             ELSE IF c >= 144 /\ c <= 159
                  THEN [err |-> "nil", n |-> Small(c - 144), pos |-> pos + 1]
             ELSE IF c = 220 THEN LenN(buf, pos + 1, 2)
             ELSE IF c = 221 THEN LenN(buf, pos + 1, 4)
             ELSE [err |-> "DecodeError", n |-> IntZero, pos |-> pos]

(***************************************************************************)
(* Geo (sdk/geo.go).  geo is [data, columnSelection]; columnSelection is   *)
(* kept as the four little-endian bytes it is read from.                   *)
(***************************************************************************)
Pow2(k) == CASE k = 0 -> 1 [] k = 1 -> 2 [] k = 2 -> 4 [] k = 3 -> 8
             [] k = 4 -> 16 [] k = 5 -> 32 [] k = 6 -> 64 [] OTHER -> 128

\* A variant that tests the bit below: (columnSelection >> (k - 1)) & 1.
SelBitBelow(cs, k) ==
    IF k - 1 >= 32 \/ k < 1 THEN 0
    ELSE (cs[((k - 1) \div 8) + 1] \div Pow2((k - 1) % 8)) % 2

\* (columnSelection >> k) & 1; columnSelection is below 2^32.
SelBit(cs, k) ==
    IF k >= 32 THEN 0
    ELSE (cs[(k \div 8) + 1] \div Pow2(k % 8)) % 2

NoSelection == Rep(0, 4)

\* The loop of ParseGeoInfo over the columns from i on, columnNumber being
\* an int: [err, info].
RECURSIVE GeoColumns(_, _, _, _, _)
GeoColumns(cs, buf, pos, i, columnNumber) ==
    IF ~IntLess(Small(i), columnNumber) THEN [err |-> "nil", info |-> <<>>]
    ELSE LET v == DecodeString(buf, pos)
             value == IF v.str = <<>> THEN <<110, 117, 108, 108>> ELSE v.str
             rest == GeoColumns(cs, buf, v.pos, i + 1, columnNumber)
         IN  IF v.err # "nil" THEN [err |-> v.err, info |-> <<>>]
             ELSE IF rest.err # "nil" THEN rest
             ELSE IF SelBit(cs, i + 1) = 1
                  THEN [err |-> "nil", info |-> value \o <<9>> \o rest.info]
             ELSE rest

\* Geo.ParseGeoInfo, [err, text], from its end to its start: each operator
\* takes what the lines before it have decoded.
\* Lines 128 to 148: the columns are decoded, the text is put together.
ParseColumns(other, arr, cols) ==
    IF arr.err # "nil" THEN [err |-> arr.err, text |-> <<>>]
    ELSE IF cols.err # "nil" THEN [err |-> cols.err, text |-> <<>>]
    ELSE [err |-> "nil", text |-> cols.info \o <<9>> \o other.str]

\* Lines 126 to 127: the decoder of the dictionary entry.
ParseEntry(geo, other, entry, arr) ==
    ParseColumns(other, arr, GeoColumns(geo.columnSelection, entry, arr.pos, 0, arr.n))

\* Lines 121 to 126: the entry is within the dictionary.
ParseLocated(geo, other, dataPtr, dataLen) ==
    IF Len(geo.data) < dataPtr + dataLen THEN [err |-> "ErrInvalidDatabase", text |-> <<>>]
    ELSE ParseEntry(geo, other, SubSeq(geo.data, dataPtr + 1, dataPtr + dataLen),
                    DecodeArrayLen(SubSeq(geo.data, dataPtr + 1, dataPtr + dataLen), 0))

\* Lines 110 to 119: dataLen is (mix >> 24) & 0xFF, dataPtr is mix & 0xFFFFFF.
ParseOther(geo, mix, other) ==
    IF other.err # "nil" THEN [err |-> other.err, text |-> <<>>]
    ELSE IF mix.val = Rep(0, 8) THEN [err |-> "nil", text |-> other.str]
    ELSE ParseLocated(geo, other, mix.val[6] * 65536 + mix.val[7] * 256 + mix.val[8],
                      mix.val[5])

\* Lines 105 to 109.
ParseMix(geo, data, mix) ==
    IF mix.err # "nil" THEN [err |-> mix.err, text |-> <<>>]
    ELSE ParseOther(geo, mix, DecodeString(data, mix.pos))

ParseGeoInfo(geo, data) == ParseMix(geo, data, DecodeInt64(data, 0))

(***************************************************************************)
(* The Reader (sdk/reader.go).  The record holds the fields of the Go      *)
(* struct that the reader uses after construction.  The lengths and the   *)
(* offsets taken from the image (encryptedDataLength, decRandomBytesLength, *)
(* offset, firstIndexPtr, totalHeaderBlockSize, lastIndexPtr and the        *)
(* elements of headerPtrs) are ints.  initOnce is the done flag of the      *)
(* sync.Once.  headerIPs and headerPtrs are Go slices made with n elements, *)
(* of which elems holds the leading ones, up to the last that has been      *)
(* assigned: the others are nil (headerIPs) or 0 (headerPtrs).  An          *)
(* operation that can fail gives back the error, "nil" for none and         *)
(* "panic" for a Go run-time panic, with the reader as the operation left   *)
(* it.                                                                      *)
(***************************************************************************)
NilArray == [n |-> 0, elems |-> <<>>]
NilGeo == [data |-> <<>>, columnSelection |-> NoSelection]

ZeroReader ==
    [Key |-> <<>>, data |-> <<>>, dataCap |-> 0,
     encryptedDataLength |-> IntZero, decRandomBytesLength |-> IntZero,
     dbType |-> 0, firstIndexPtr |-> IntZero, totalHeaderBlockSize |-> IntZero,
     lastIndexPtr |-> IntZero,
     inited |-> FALSE, initOnce |-> FALSE, initErr |-> "nil",
     offset |-> IntZero, ipLength |-> 0, indexBlockLength |-> 0,
     geo |-> NilGeo,
     headerIPs |-> NilArray, headerPtrs |-> NilArray, headerLen |-> 0]

\* The sizes from 512 to 32768 bytes that Go's allocator hands out
\* (runtime/sizeclasses.go); above, an allocation is a number of pages of
\* 8192 bytes.
SizeClasses ==
    << 512, 576, 640, 704, 768, 896, 1024, 1152, 1280, 1408, 1536, 1792, 2048, 2304, 2688,
       3072, 3200, 3456, 4096, 4864, 5120, 5376, 6144, 6528, 6784, 6912, 8192, 9472, 9728,
       10240, 10880, 12288, 13568, 14336, 16384, 18432, 19072, 20480, 21760, 24576, 27264,
       28672, 32768 >>

RoundUpSize(size) ==
    IF size > 32768 THEN ((size + 8191) \div 8192) * 8192
    ELSE SizeClasses[CHOOSE k \in 1..Len(SizeClasses) :
                         /\ size <= SizeClasses[k]
                         /\ \A j \in 1..(k - 1) : SizeClasses[j] < size]

\* The capacity that append gives a full slice of bytes of the capacity
\* cap >= 256 for one more byte (runtime.growslice, Go 1.18 and later).
GrowCap(cap) == RoundUpSize(cap + (cap + 768) \div 4)

\* The capacity of the slice io.ReadAll returns for a file of n bytes: it
\* reads into a buffer of 512 bytes and, whenever the buffer is full,
\* appends to it before it reads on; the end of the file is met by a read
\* into a buffer that has room, so the capacity is above n.
RECURSIVE ReadAllGrow(_, _)
ReadAllGrow(n, cap) == IF n < cap THEN cap ELSE ReadAllGrow(n, GrowCap(cap))

ReadAllCap(n) == ReadAllGrow(n, 512)

\* NewReader on a file of the given bytes.
NewReader(bytes) ==
    IF Len(bytes) < HyperHeaderLength THEN [err |-> "ErrInvalidDatabase", r |-> ZeroReader]
    ELSE LET n == Uint32LE(SubSeq(bytes, 9, 12))
         IN  IF IntLess(Small(Len(bytes)), IntAdd(n, Small(HyperHeaderLength)))
             THEN [err |-> "ErrInvalidDatabase", r |-> ZeroReader]
             ELSE [err |-> "nil",
                   r |-> [ZeroReader EXCEPT !.data = bytes,
                                            !.dataCap = ReadAllCap(Len(bytes)),
                                            !.encryptedDataLength = n]]

\* Reader.validateKey, line 33: the key is read and tested for "".
validateKeyEmpty(r) == IF r.Key = <<>> THEN "ErrKeyRequired" ELSE "nil"

\* Reader.validateKey, lines 36 and 37: the key is read again and decoded.
validateKeyDecode(r) == Base64Decode(r.Key).err

\* Reader.decryptHyperHeader, lines 56 to 61: backing holds the bytes of
\* decryptedData up to its capacity, which bounds decryptedData[:4] and
\* decryptedData[4:8].
decryptedFields(r, backing) ==
    IF Len(backing) < 8 THEN [r |-> r, err |-> "panic"]
    ELSE [r |-> [r EXCEPT !.decRandomBytesLength = Uint32LE(SubSeq(backing, 5, 8)),
                          !.offset = IntAdd(IntAdd(Small(HyperHeaderLength),
                                                   r.encryptedDataLength),
                                            Uint32LE(SubSeq(backing, 5, 8)))],
          err |-> "nil"]

\* Reader.decryptHyperHeader: the outcomes [r, err] that it can have; they
\* are one but for a plaintext of fewer than eight bytes, where the capacity
\* of the slice that AesECBDecrypt returns decides.
decryptHyperHeader(r) ==
    LET key == Base64Decode(r.Key)
        lo == Small(HyperHeaderLength)
        hi == IntAdd(lo, r.encryptedDataLength)
        dec == AesECBDecrypt(SliceAt(r.data, lo, hi), key.bytes)
    IN  IF key.err # "nil" THEN {[r |-> r, err |-> key.err]}
        ELSE IF ~SliceOK(r.dataCap, lo, hi) THEN {[r |-> r, err |-> "panic"]}
        ELSE IF dec.err # "nil" THEN {[r |-> r, err |-> dec.err]}
        ELSE { decryptedFields(r, backing) : backing \in PlainBackings(dec) }

\* Reader.setupIPVersion.
setupIPVersion(r) ==
    IF r.dbType % 2 = 0
    THEN [r EXCEPT !.ipLength = IPv4Length, !.indexBlockLength = IPv4IndexBlockLength]
    ELSE [r EXCEPT !.ipLength = IPv6Length, !.indexBlockLength = IPv6IndexBlockLength]

\* Reader.parseSuperPart.
parseSuperPart(r) ==
    LET sp == SliceAt(r.data, r.offset, IntAdd(r.offset, Small(SuperPartLength)))
    IN  IF ~SliceOK(r.dataCap, r.offset, IntAdd(r.offset, Small(SuperPartLength)))
        THEN [r |-> r, err |-> "panic"]
        ELSE [r |-> setupIPVersion([r EXCEPT !.dbType = sp[1],
                                             !.firstIndexPtr = Uint32LE(SubSeq(sp, 6, 9)),
                                             !.totalHeaderBlockSize = Uint32LE(SubSeq(sp, 10, 13)),
                                             !.lastIndexPtr = Uint32LE(SubSeq(sp, 14, 17))]),
              err |-> "nil"]

\* Reader.parseHeaderBlocks, line 90: headerIPs is made anew.
makeHeaderIPs(r) ==
    [r EXCEPT !.headerIPs = [n |-> Val(GoDiv(r.totalHeaderBlockSize, HeaderBlockLength)),
                             elems |-> <<>>]]

\* Reader.parseHeaderBlocks, line 91: headerPtrs is made anew.
makeHeaderPtrs(r) ==
    [r EXCEPT !.headerPtrs = [n |-> Val(GoDiv(r.totalHeaderBlockSize, HeaderBlockLength)),
                              elems |-> <<>>]]

\* The assignment s[idx] = v to a slice of which elems are the leading
\* elements, zero being the value of an element never assigned.
StoreAt(elems, idx, v, zero) ==
    IF idx < Len(elems) THEN [elems EXCEPT ![idx + 1] = v]
    ELSE elems \o Rep(zero, idx - Len(elems)) \o <<v>>

\* A step of Reader.Init has led to the reader r and the error err; k is the
\* step that comes next, idx and hp are the locals idx and headerPtr of
\* parseHeaderBlocks.
Stepped(r, err, k, idx, hp) == [r |-> r, err |-> err, k |-> k, idx |-> idx, hp |-> hp]

\* Reader.parseHeaderBlocks, lines 92 to 97, for the entry idx (i is idx
\* entries into the header block array): the loop ends at the end of the
\* array or at a pointer of 0; r.data[at+16:] must start within the image and
\* hold four bytes, and idx must index headerIPs, whose entry idx is
\* assigned.
headerEntryIP(r, idx) ==
    LET i == idx * HeaderBlockLength
        at == IntAdd(r.offset, Small(SuperPartLength + i))
        headerPtr == Uint32LE(SliceAt(r.data, IntAdd(at, Small(16)), IntAdd(at, Small(20))))
    IN  IF ~IntLess(Small(i), r.totalHeaderBlockSize) THEN Stepped(r, "nil", 9, idx, IntZero)
        ELSE IF ~SliceOK(Len(r.data), IntAdd(at, Small(16)), IntAdd(at, Small(20)))
        THEN Stepped(r, "panic", 7, idx, IntZero)
        ELSE IF headerPtr = IntZero THEN Stepped(r, "nil", 9, idx, IntZero)
        ELSE IF idx >= r.headerIPs.n THEN Stepped(r, "panic", 7, idx, headerPtr)
        ELSE Stepped([r EXCEPT !.headerIPs.elems =
                          StoreAt(@, idx, SliceAt(r.data, at, IntAdd(at, Small(16))), <<>>)],
                     "nil", 8, idx, headerPtr)

\* Reader.parseHeaderBlocks, lines 98 and 99: entry idx of headerPtrs is
\* assigned the pointer hp read at line 93, and idx goes up.
headerEntryPtr(r, idx, hp) ==
    IF idx >= r.headerPtrs.n THEN Stepped(r, "panic", 8, idx, hp)
    ELSE Stepped([r EXCEPT !.headerPtrs.elems = StoreAt(@, idx, hp, IntZero)],
                 "nil", 7, idx + 1, IntZero)

\* Reader.parseHeaderBlocks, line 101.
setHeaderLen(r, idx) == [r EXCEPT !.headerLen = idx]

\* Reader.loadGeoSetting.
loadGeoSetting(r) ==
    LET key == Base64Decode(r.Key)
        o == IntAdd(IntAdd(r.offset, r.lastIndexPtr), Small(r.indexBlockLength))
        o4 == IntAdd(o, Small(4))
        o8 == IntAdd(o, Small(8))
        columnSelection == SliceAt(r.data, o, o4)
        geoDataLength == Uint32LE(SliceAt(r.data, o4, o8))
        r1 == [r EXCEPT !.geo.columnSelection = columnSelection]
    IN  IF key.err # "nil" THEN [r |-> r, err |-> key.err]
        ELSE IF ~SliceOK(r.dataCap, o, o4) THEN [r |-> r, err |-> "panic"]
        ELSE IF columnSelection = NoSelection THEN [r |-> r1, err |-> "nil"]
        ELSE IF ~SliceOK(r.dataCap, o4, o8) THEN [r |-> r1, err |-> "panic"]
        ELSE IF ~SliceOK(r.dataCap, o8, IntAdd(o8, geoDataLength))
        THEN [r |-> r1, err |-> "panic"]
        ELSE [r |-> [r1 EXCEPT !.geo.data =
                         XorDecrypt(SliceAt(r.data, o8, IntAdd(o8, geoDataLength)), key.bytes)],
              err |-> "nil"]

\* Reader.Init, line 144.
setInited(r) == [r EXCEPT !.inited = TRUE]

\* The steps of Reader.Init.  A step holds at most one access to what a
\* concurrent caller can change under it: the key (lines 33, 36, 48 and 106
\* of the initialisation), the two header arrays and their entries, and
\* inited.  The other fields that Init assigns are read by Init after it has
\* assigned them, and by the search after a complete Init.
InitSteps == 11

\* The outcomes of step k of Reader.Init: 1 and 2 are validateKey, 3 is
\* decryptHyperHeader, 4 parseSuperPart, 5 to 9 parseHeaderBlocks, 10
\* loadGeoSetting and 11 line 144.
InitStep(r, k, idx, hp) ==
    CASE k = 1 -> {Stepped(r, validateKeyEmpty(r), 2, 0, IntZero)}
      [] k = 2 -> {Stepped(r, validateKeyDecode(r), 3, 0, IntZero)}
      [] k = 3 -> { Stepped(s.r, s.err, 4, 0, IntZero) : s \in decryptHyperHeader(r) }
      [] k = 4 -> {Stepped(parseSuperPart(r).r, parseSuperPart(r).err, 5, 0, IntZero)}
      [] k = 5 -> {Stepped(makeHeaderIPs(r), "nil", 6, 0, IntZero)}
      [] k = 6 -> {Stepped(makeHeaderPtrs(r), "nil", 7, 0, IntZero)}
      [] k = 7 -> {headerEntryIP(r, idx)}
      [] k = 8 -> {headerEntryPtr(r, idx, hp)}
      [] k = 9 -> {Stepped(setHeaderLen(r, idx), "nil", 10, 0, IntZero)}
      [] k = 10 -> {Stepped(loadGeoSetting(r).r, loadGeoSetting(r).err, 11, 0, IntZero)}
      [] OTHER -> {Stepped(setInited(r), "nil", 12, 0, IntZero)}

\* Init has returned after the step that led to s.
InitOver(s) == s.err # "nil" \/ s.k > InitSteps

\* Reader.Init run by one caller from s on: its outcomes [r, err].
RECURSIVE InitFrom(_)
InitFrom(s) ==
    IF InitOver(s) THEN {[r |-> s.r, err |-> s.err]}
    ELSE UNION { InitFrom(t) : t \in InitStep(s.r, s.k, s.idx, s.hp) }

Init(r) == InitFrom(Stepped(r, "nil", 1, 0, IntZero))

(***************************************************************************)
(* The two-level search (sdk/reader.go).                                   *)
(***************************************************************************)
\* r.headerIPs[m] and r.headerPtrs[m]; IndexOK says that m indexes the array.
IndexOK(arr, m) == 0 <= m /\ m < arr.n
IPAt(r, m) == IF m < Len(r.headerIPs.elems) THEN r.headerIPs.elems[m + 1] ELSE <<>>
PtrAt(r, m) == IF m < Len(r.headerPtrs.elems) THEN r.headerPtrs.elems[m + 1] ELSE IntZero

\* The loop of Reader.searchHeader (lines 219 to 236): hit says that it ended
\* on the break of an equal entry.  The pointers are ints.
RECURSIVE HeaderSearchLoop(_, _, _, _)
HeaderSearchLoop(r, ip, l, h) ==
    LET m == (l + h) \div 2
        cmp == BytesCompare(ip, IPAt(r, m))
    IN  IF l > h
        THEN [l |-> l, h |-> h, sptr |-> IntZero, eptr |-> IntZero, hit |-> FALSE, panic |-> FALSE]
        ELSE IF ~IndexOK(r.headerIPs, m)
        THEN [l |-> l, h |-> h, sptr |-> IntZero, eptr |-> IntZero, hit |-> FALSE, panic |-> TRUE]
        ELSE IF cmp < 0 THEN HeaderSearchLoop(r, ip, l, m - 1)
        ELSE IF cmp > 0 THEN HeaderSearchLoop(r, ip, m + 1, h)
        ELSE IF ~IndexOK(r.headerPtrs, m)
        THEN [l |-> l, h |-> h, sptr |-> IntZero, eptr |-> IntZero, hit |-> TRUE, panic |-> TRUE]
        ELSE [l |-> l, h |-> h,
              sptr |-> IF m > 0 THEN PtrAt(r, m - 1) ELSE PtrAt(r, m),
              eptr |-> PtrAt(r, m), hit |-> TRUE, panic |-> FALSE]

\* A variant that takes both pointers from the second entry.
PtrPairOfSecond(r, a, b) ==
    IF IndexOK(r.headerPtrs, a) /\ IndexOK(r.headerPtrs, b)
    THEN [sptr |-> PtrAt(r, b), eptr |-> PtrAt(r, b), panic |-> FALSE]
    ELSE [sptr |-> IntZero, eptr |-> IntZero, panic |-> TRUE]

\* Two pointers of the header array, or a panic on an index out of range.
PtrPair(r, a, b) ==
    IF IndexOK(r.headerPtrs, a) /\ IndexOK(r.headerPtrs, b)
    THEN [sptr |-> PtrAt(r, a), eptr |-> PtrAt(r, b), panic |-> FALSE]
    ELSE [sptr |-> IntZero, eptr |-> IntZero, panic |-> TRUE]

\* The condition of line 239, "less than header range".
BelowHeaderRange(l, h) == l = 0 /\ h <= 0

\* Reader.searchHeader: [sptr, eptr, panic].
searchHeader(r, ip) ==
    LET s == HeaderSearchLoop(r, ip, 0, r.headerLen - 1)
    IN  IF r.headerLen = 0 THEN [sptr |-> IntZero, eptr |-> IntZero, panic |-> FALSE]
        ELSE IF s.panic THEN [sptr |-> IntZero, eptr |-> IntZero, panic |-> TRUE]
        ELSE IF BelowHeaderRange(s.l, s.h)
        THEN [sptr |-> IntZero, eptr |-> IntZero, panic |-> FALSE]
        ELSE IF s.l > s.h
        THEN IF s.l < r.headerLen THEN PtrPair(r, s.l - 1, s.l)
             ELSE IF s.h >= 0 /\ s.h + 1 < r.headerLen THEN PtrPair(r, s.h, s.h + 1)
             ELSE IF IndexOK(r.headerPtrs, r.headerLen - 1)
             THEN [sptr |-> PtrAt(r, r.headerLen - 1),
                   eptr |-> IntAdd(PtrAt(r, r.headerLen - 1), Small(r.indexBlockLength)),
                   panic |-> FALSE]
             ELSE [sptr |-> IntZero, eptr |-> IntZero, panic |-> TRUE]
        ELSE [sptr |-> s.sptr, eptr |-> s.eptr, panic |-> FALSE]

\* A variant of the test of line 283 that looks at the start only.
CoversFromStart(cmpStart, cmpEnd) == cmpStart >= 0

\* The test of line 283: the block [start, end] covers ip.
Covers(cmpStart, cmpEnd) == cmpStart >= 0 /\ cmpEnd <= 0

\* The loop of Reader.searchIndex: [sip, eip, dataPtr, dataLen, panic].  The
\* two addresses of a block are sliced (within the capacity); the pointer
\* and the length of a matching block are read within the length.
\* p of line 279 for the block m, and the offset of that block in the image.
BlockPtr(r, sptr, m) == IntAdd(sptr, IntTimes(Small(m), r.indexBlockLength))
BlockAt(r, sptr, m) == IntAdd(r.offset, BlockPtr(r, sptr, m))

RECURSIVE IndexSearchLoop(_, _, _, _, _)
IndexSearchLoop(r, sptr, ip, l, h) ==
    LET m == (l + h) \div 2
        at == BlockAt(r, sptr, m)
        mid == IntAdd(at, Small(r.ipLength))
        past == IntAdd(at, Small(2 * r.ipLength))
        start == SliceAt(r.data, at, mid)
        end == SliceAt(r.data, mid, past)
        cmpStart == BytesCompare(ip, start)
        cmpEnd == BytesCompare(ip, end)
        none == [sip |-> Rep(0, r.ipLength), eip |-> Rep(0, r.ipLength),
                 dataPtr |-> IntZero, dataLen |-> 0, panic |-> FALSE]
    IN  IF l > h THEN none
        ELSE IF ~SliceOK(r.dataCap, at, past) THEN [none EXCEPT !.panic = TRUE]
        ELSE IF Covers(cmpStart, cmpEnd)
        THEN IF Val(past) + 4 >= Len(r.data) THEN [none EXCEPT !.panic = TRUE]
             ELSE [sip |-> start, eip |-> end,
                   dataPtr |-> Uint32LE(Slice(r.data, Val(past), Val(past) + 4)),
                   dataLen |-> r.data[Val(past) + 5],
                   panic |-> FALSE]
        ELSE IF cmpStart < 0 THEN IndexSearchLoop(r, sptr, ip, l, m - 1)
        ELSE IndexSearchLoop(r, sptr, ip, m + 1, h)

\* The offsets p (line 279, from the super part) of the index blocks that the
\* loop of Reader.searchIndex reads, in the course that IndexSearchLoop takes.
RECURSIVE IndexSearchReads(_, _, _, _, _)
IndexSearchReads(r, sptr, ip, l, h) ==
    LET m == (l + h) \div 2
        at == BlockAt(r, sptr, m)
        mid == IntAdd(at, Small(r.ipLength))
        past == IntAdd(at, Small(2 * r.ipLength))
        cmpStart == BytesCompare(ip, SliceAt(r.data, at, mid))
        cmpEnd == BytesCompare(ip, SliceAt(r.data, mid, past))
    IN  IF l > h THEN {}
        ELSE IF ~SliceOK(r.dataCap, at, past) THEN {BlockPtr(r, sptr, m)}
        ELSE IF Covers(cmpStart, cmpEnd) THEN {BlockPtr(r, sptr, m)}
        ELSE IF cmpStart < 0
        THEN {BlockPtr(r, sptr, m)} \cup IndexSearchReads(r, sptr, ip, l, m - 1)
        ELSE {BlockPtr(r, sptr, m)} \cup IndexSearchReads(r, sptr, ip, m + 1, h)

\* h of line 270: the quotient is below 2^30.
LastBlock(r, sptr, eptr) == Val(GoDiv(IntSub(eptr, sptr), r.indexBlockLength))

\* The index blocks that Reader.searchIndex reads.
searchIndexReads(r, sptr, eptr, ip) ==
    IF r.indexBlockLength = 0 THEN {}
    ELSE IndexSearchReads(r, sptr, ip, 0, LastBlock(r, sptr, eptr))

\* A variant that leaves the block at eptr out of the search.
searchIndexBelowEnd(r, sptr, eptr, ip) ==
    IF r.indexBlockLength = 0
    THEN [sip |-> <<>>, eip |-> <<>>, dataPtr |-> IntZero, dataLen |-> 0, panic |-> TRUE]
    ELSE IndexSearchLoop(r, sptr, ip, 0, LastBlock(r, sptr, eptr) - 1)

\* Reader.searchIndex, sptr and eptr being ints; a division by an
\* indexBlockLength of 0 panics.
searchIndex(r, sptr, eptr, ip) ==
    IF r.indexBlockLength = 0
    THEN [sip |-> <<>>, eip |-> <<>>, dataPtr |-> IntZero, dataLen |-> 0, panic |-> TRUE]
    ELSE IndexSearchLoop(r, sptr, ip, 0, LastBlock(r, sptr, eptr))

(***************************************************************************)
(* Reader.Find.  Its result is [err, start, end, text]: the range and the  *)
(* text are empty unless err is "nil".                                     *)
(***************************************************************************)
Failure(err) == [err |-> err, start |-> <<>>, end |-> <<>>, text |-> <<>>]
Success(start, end, text) == [err |-> "nil", start |-> start, end |-> end, text |-> text]

\* A variant of the condition of line 179 that accepts :: only.
IsZeroQueryV6Only(ip) == IPEqual(ip, IPv6zero)

\* The condition of line 179: the query is a zero address.
IsZeroQuery(ip) == IPEqual(ip, IPv4zero) \/ IPEqual(ip, IPv6zero)

\* A variant of the condition of line 188 that never holds.
IsSkippedIPv4Never(r, ip) == FALSE

\* The condition of line 188: the IPv4 zero address on an IPv6 database.
IsSkippedIPv4(r, ip) == r.dbType = IPv6 /\ IPEqual(ip, IPv4zero)

\* The range of line 189.
SkippedIPv4Range == [start |-> To16(IPv4zero), end |-> To16(LastIPv4)]

\* The normalisation of lines 169 to 173.
Normalise(r, ip) == IF r.dbType = IPv4 THEN To4(ip) ELSE To16(ip)

\* Reader.Find from line 169 on, from its end to its start: each operator
\* takes what the lines before it have found.
\* Lines 194 to 202: the record that the index search has found.
FindRecord(r, is, geo) ==
    IF ~SliceOK(r.dataCap, IntAdd(r.offset, is.dataPtr),
                IntAdd(IntAdd(r.offset, is.dataPtr), Small(is.dataLen)))
    THEN Failure("panic")
    ELSE IF geo.err # "nil" THEN Failure(geo.err)
    ELSE Success(is.sip, is.eip, geo.text)

\* Lines 186 to 194: is is the outcome of the index search.
FindIndexed(r, ip, is) ==
    IF is.panic THEN Failure("panic")
    ELSE IF is.dataPtr = IntZero
    THEN IF IsSkippedIPv4(r, ip)
         THEN Success(SkippedIPv4Range.start, SkippedIPv4Range.end, TempDataNotFound)
         ELSE Failure("ErrInvalidDatabase")
    ELSE FindRecord(r, is,
                    ParseGeoInfo(r.geo,
                                 SliceAt(r.data, IntAdd(r.offset, is.dataPtr),
                                         IntAdd(IntAdd(r.offset, is.dataPtr), Small(is.dataLen)))))

\* Lines 176 to 185: ip is the normalised query, hs the outcome of the
\* header search.
FindHeaded(r, ip, hs) ==
    IF hs.panic THEN Failure("panic")
    ELSE IF hs.sptr = IntZero
    THEN IF IsZeroQuery(ip) THEN Success(ip, ip, TempDataNotFound)
         ELSE Failure("ErrInvalidDatabase")
    ELSE FindIndexed(r, ip, searchIndex(r, hs.sptr, hs.eptr, ip))

\* Lines 169 to 175: the search on the reader as it is.
FindSearch(r, query) ==
    FindHeaded(r, Normalise(r, query), searchHeader(r, Normalise(r, query)))

\* Lines 161 to 164 when the Once has not run: Init runs (res is its
\* outcome), its error is stored and the Once is done; a panic leaves
\* initErr as it was and the Once done all the same (sync.Once marks it in a
\* deferred call).
OnceStore(res) ==
    IF res.err = "panic" THEN [r |-> [res.r EXCEPT !.initOnce = TRUE], err |-> "panic"]
    ELSE [r |-> [res.r EXCEPT !.initErr = res.err, !.initOnce = TRUE], err |-> "nil"]

OnceInit(r) == { OnceStore(res) : res \in Init(r) }

\* Lines 165 to 202: once is the reader after initOnce.Do, or the panic that
\* came out of it; ran says that this call executed Init.
FindAfter(r, query, ran, once) ==
    IF once.err = "panic"
    THEN [r |-> once.r, out |-> Failure("panic"), ran |-> ran, early |-> FALSE]
    ELSE IF ~r.inited /\ once.r.initErr # "nil"
    THEN [r |-> once.r, out |-> Failure(once.r.initErr), ran |-> ran, early |-> TRUE]
    ELSE [r |-> once.r, out |-> FindSearch(once.r, query), ran |-> ran, early |-> FALSE]

\* Reader.Find, called by one caller at a time: its outcomes
\* [r, out, ran, early], early saying that it returned the stored error of
\* Init (line 166).
Find(r, query) ==
    { FindAfter(r, query, ~r.inited /\ ~r.initOnce, once) :
          once \in (IF ~r.inited /\ ~r.initOnce THEN OnceInit(r)
                    ELSE {[r |-> r, err |-> "nil"]}) }

\* Reader.IsIPv4 and Reader.IsIPv6.
IsIPv4(r) == r.dbType = IPv4
IsIPv6(r) == r.dbType = IPv6

\* Reader.Close.
Close(r) ==
    [r EXCEPT !.data = <<>>, !.dataCap = 0,
              !.headerIPs = NilArray, !.headerPtrs = NilArray, !.geo = NilGeo,
              !.inited = FALSE, !.initErr = "nil", !.initOnce = FALSE]

(***************************************************************************)
(* The wrapper (format/czdb/reader.go).                                    *)
(***************************************************************************)
\* Reader.SetOption with a ReaderOption of the given key: the key is stored
\* and, unless it is empty, Init is called directly; its error is dropped
\* and a panic goes to the caller.  res is an outcome of Init; SetOption is
\* the set of the outcomes [r, err, ran].
SetOptionInited(res) ==
    [r |-> res.r, err |-> IF res.err = "panic" THEN "panic" ELSE "nil", ran |-> TRUE]

SetOption(r, key) ==
    IF key = <<>> THEN {[r |-> [r EXCEPT !.Key = key], err |-> "nil", ran |-> FALSE]}
    ELSE { SetOptionInited(res) : res \in Init([r EXCEPT !.Key = key]) }

(***************************************************************************)
(* Database images.  The reader is given whole files; these operators lay  *)
(* out the files the model runs it on, as doc.go describes the format: the *)
(* hyper header, the encrypted metadata, random bytes, the super part, the *)
(* header blocks (closed by an entry with a zero pointer), the records,    *)
(* the index blocks and the geo map.  Every offset counts from the super   *)
(* part.  A header entry is the start address and the offset of the first  *)
(* index block of a group of blocks; the last entry is that of the last    *)
(* index block.                                                            *)
(***************************************************************************)
RECURSIVE Concat(_)
Concat(ss) == IF ss = <<>> THEN <<>> ELSE Head(ss) \o Concat(Tail(ss))

RECURSIVE SumLen(_)
SumLen(ss) == IF ss = <<>> THEN 0 ELSE Len(Head(ss)) + SumLen(Tail(ss))

\* The members of a set of integers in increasing order.
RECURSIVE SortSet(_)
SortSet(S) ==
    IF S = {} THEN <<>>
    ELSE LET m == CHOOSE x \in S : \A y \in S : x <= y
         IN  <<m>> \o SortSet(S \ {m})

\* The keys of the model, as the bytes of the strings: the key of every
\* image ("VVVVVVVVVVVVVVVVVVVVVQ==", sixteen bytes 0x55), a string that is
\* not base64 ("!!!") and the base64 of sixteen other bytes.
GoodKey == Rep(86, 21) \o <<81, 61, 61>>
MalformedKey == <<33, 33, 33>>
WrongKey == Rep(65, 22) \o <<61, 61>>
GoodKeyBytes == Rep(85, 16)

\* The addresses that generated databases and queries are taken from, in
\* increasing order, per address width.
Points4 ==
    << <<0, 0, 0, 0>>, <<0, 0, 0, 9>>, <<1, 0, 0, 0>>, <<9, 0, 0, 0>>, <<255, 255, 255, 255>> >>

Points6 ==
    << IPv6zero, IPv4zero, NetIPv4(255, 255, 255, 255), <<32>> \o Rep(0, 15), Rep(255, 16) >>

Points(w) == IF w = 4 THEN Points4 ELSE Points6

\* Addresses strictly between the points, and one of a wrong length.
Between4 == { <<0, 0, 0, 5>>, <<1, 2, 3, 4>> }
Between6 == { Rep(0, 15) \o <<7>>, <<32>> \o Rep(0, 14) \o <<1>> }

Queries ==
    {Points4[i] : i \in 1..Len(Points4)} \cup {Points6[i] : i \in 1..Len(Points6)}
        \cup Between4 \cup Between6

\* The width of the addresses of a database of the given type.
WidthOf(dbType) == IF dbType % 2 = 0 THEN 4 ELSE 16

\* The geo dictionary: the arrays ["CN", ""] at 0 (5 bytes) and ["US"] at 5
\* (4 bytes); the column selection takes the columns 0 and 1.
GeoDict == <<146, 162, 67, 78, 160>> \o <<145, 162, 85, 83>>
GeoSelection == <<6, 0, 0, 0>>

\* The record of block j (from 0): no geo data, the first array, the second
\* array, in turn; other_data is "b" and the digit j.
Payload(j) ==
    (CASE j % 3 = 0 -> <<0>>
       [] j % 3 = 1 -> <<206, 5, 0, 0, 0>>
       [] OTHER -> <<206, 4, 0, 0, 5>>) \o <<162, 98, 48 + j>>

\* The text that Find gives for block j.
PayloadText(j) ==
    (CASE j % 3 = 0 -> <<>>
       [] j % 3 = 1 -> <<67, 78, 9, 110, 117, 108, 108, 9, 9>>
       [] OTHER -> <<85, 83, 9, 9>>) \o <<98, 48 + j>>

\* The blocks of the headers: the first of each group and the last block.
HeaderBlocks(n, group) == SortSet({j \in 0..(n - 1) : j % group = 0} \cup {n - 1})

\* An offset far beyond the end (and the capacity) of every image.
FarOffset == PutUint32LE(15728640)

\* The image of the database db = [dbType, blocks, group, pad, corrupt]:
\* blocks is the sequence of the ranges [s, e] of the index blocks.  corrupt
\* is "none", or names the damage: "lastIndexPtr" and "dataPtr" put FarOffset
\* in the super part's last_index_ptr and in the first index block's
\* data_ptr, "cut" ends the file ten bytes into the header blocks, and
\* "noHeaders" fills the header blocks with zeros (the array ends at once).
BuildImage(db) ==
    LET w == WidthOf(db.dbType)
        bw == 2 * w + 5
        n == Len(db.blocks)
        hb == HeaderBlocks(n, db.group)
        total == HeaderBlockLength * (Len(hb) + 1)
        dataStart == SuperPartLength + total
        payloads == [j \in 1..n |-> Payload(j - 1)]
        dataPtr(j) == dataStart + SumLen(SubSeq(payloads, 1, j - 1))
        first == dataStart + SumLen(payloads)
        indexPtr(j) == first + (j - 1) * bw
        last == indexPtr(n)
        meta == <<81, 210, 3, 0>> \o PutUint32LE(db.pad) \o Rep(8, 8)
        hyper == <<19, 207, 52, 1>> \o <<7, 0, 0, 0>> \o PutUint32LE(16)
        super == <<db.dbType>> \o PutUint32LE(0) \o PutUint32LE(first)
                     \o PutUint32LE(total)
                     \o (IF db.corrupt = "lastIndexPtr" THEN FarOffset ELSE PutUint32LE(last))
        headers == Concat([k \in 1..Len(hb) |->
                       db.blocks[hb[k] + 1].s \o Rep(0, 16 - w) \o PutUint32LE(indexPtr(hb[k] + 1))])
                   \o Rep(0, HeaderBlockLength)
        index == Concat([j \in 1..n |->
                       db.blocks[j].s \o db.blocks[j].e
                           \o (IF db.corrupt = "dataPtr" /\ j = 1 THEN FarOffset
                               ELSE PutUint32LE(dataPtr(j)))
                           \o <<Len(payloads[j])>>])
        geomap == GeoSelection \o PutUint32LE(Len(GeoDict)) \o XorDecrypt(GeoDict, GoodKeyBytes)
        front == hyper \o BlockXor(meta, GoodKeyBytes) \o Rep(170, db.pad) \o super
    IN  IF db.corrupt = "cut" THEN front \o SubSeq(headers, 1, 10)
        ELSE IF db.corrupt = "noHeaders"
        THEN front \o Rep(0, Len(headers)) \o Concat(payloads) \o index \o geomap
        ELSE front \o headers \o Concat(payloads) \o index \o geomap

\* The sequences of n ranges with bounds among the points of width w: sorted,
\* closed and disjoint.  A choice of 2n of the numbers 1..(points + n) gives
\* the bounds a1 <= b1 < a2 <= b2 < ...
RangeLists(w, n) ==
    LET np == Len(Points(w))
        picks == {S \in SUBSET (1..(np + n)) : Cardinality(S) = 2 * n}
    IN  { LET c == SortSet(S)
          IN  [i \in 1..n |-> [s |-> Points(w)[c[2 * i - 1] - (i - 1)],
                               e |-> Points(w)[c[2 * i] - i]]]
          : S \in picks }

\* The databases of the model.
DbTypes == {0, 1, 2, 3}

\* The layouts of a database of type t: the types other than IPv4 and IPv6
\* get one block less, and a group is shorter than the list of the blocks
\* (longer groups give the same headers).
Layouts(t) ==
    LET most == IF t \in {IPv4, IPv6} THEN MaxBlocks ELSE MaxBlocks - 1
    IN  UNION { { [blocks |-> b, group |-> g] :
                    b \in RangeLists(WidthOf(t), n), g \in 1..Max(1, Min(MaxGroup, n - 1)) }
                : n \in 1..most }

Databases ==
    UNION { { [dbType |-> t, blocks |-> l.blocks, group |-> l.group,
               pad |-> MaxPad, corrupt |-> "none"] : l \in Layouts(t) }
            : t \in DbTypes }

\* The databases of the lifecycle: one layout per family, whole or damaged.
Damage == {"none", "cut", "lastIndexPtr", "dataPtr"}

LifeBlocks(w) ==
    << [s |-> Points(w)[1], e |-> Points(w)[2]], [s |-> Points(w)[3], e |-> Points(w)[3]],
       [s |-> Points(w)[4], e |-> Points(w)[5]] >>

LifeDatabases ==
    { [dbType |-> t, blocks |-> LifeBlocks(WidthOf(t)), group |-> MaxGroup,
       pad |-> MaxPad, corrupt |-> c] : t \in {IPv4, IPv6}, c \in Damage }

LifeQueries == { <<0, 0, 0, 0>>, <<0, 0, 0, 5>>, <<32>> \o Rep(0, 14) \o <<1>> }

\* The databases of the header search: those, and for each type one of a
\* single block and no header entry.
HeaderDatabases ==
    Databases \cup { [dbType |-> t, blocks |-> <<LifeBlocks(WidthOf(t))[1]>>, group |-> 1,
                      pad |-> MaxPad, corrupt |-> "noHeaders"] : t \in DbTypes }

Keys == { <<>>, GoodKey, MalformedKey, WrongKey }

\* The databases, the queries and the keys of the concurrent callers.
ConcDatabases == { d \in LifeDatabases : d.corrupt = "none" /\ d.dbType = IPv4 }
ConcQueries == { <<0, 0, 0, 5>>, <<32>> \o Rep(0, 14) \o <<1>> }
ConcKeys == { GoodKey, MalformedKey }
Procs == {1, 2}

(***************************************************************************)
(* Dictionaries and records for ParseGeoInfo on its own.  A case is a      *)
(* first dictionary array (the second is ["US"]) and the set of the bits   *)
(* of column_selection that are set; the encoders are those of the         *)
(* MessagePack format that the decoder reads: fixstr, fixarray, and for    *)
(* geo_pos_mix_size a positive fixint, a uint32 or an int64.               *)
(***************************************************************************)
\* A string of fewer than 32 bytes and an array of fewer than 16 strings.
EncodeStr(str) == <<160 + Len(str)>> \o str
EncodeArray(elems) == <<144 + Len(elems)>> \o Concat([i \in 1..Len(elems) |-> EncodeStr(elems[i])])

\* geo_pos_mix_size = (len << 24) | ptr with len < 256 and ptr < 2^24, as a
\* uint32 or, when wide, as an int64; 0 is the fixint 0.
EncodeMix(len, ptr, wide) ==
    LET low == <<len, (ptr \div 65536) % 256, (ptr \div 256) % 256, ptr % 256>>
    IN  IF len = 0 /\ ptr = 0 THEN <<0>>
        ELSE IF wide THEN <<211, 0, 0, 0, 0>> \o low
        ELSE <<206>> \o low

\* The record payload: geo_pos_mix_size, then other_data.
EncodeRecord(len, ptr, wide, other) == EncodeMix(len, ptr, wide) \o EncodeStr(other)

\* The strings and the arrays of the dictionaries: "", "A" and "BC", up to
\* MaxColumns to an array.
GeoStrings == { <<>>, <<65>>, <<66, 67>> }
GeoArrays == UNION { [1..n -> GeoStrings] : n \in 0..MaxColumns }
SecondArray == << <<85, 83>> >>

\* The bits of column_selection that a case may set, and the four bytes of
\* a set of bits.
SelectionBits == 0..(MaxColumns + 1)
SelectionBytes(bits) ==
    << SumLen([k \in 1..8 |-> IF (k - 1) \in bits THEN Rep(0, Pow2(k - 1)) ELSE <<>>]), 0, 0, 0 >>

GeoCases == { [first |-> a, bits |-> b] : a \in GeoArrays, b \in SUBSET SelectionBits }

\* The dictionary of a case and the Geo that loadGeoSetting leaves for it:
\* the dictionary is loaded unless column_selection is 0.
GeoDictOf(c) == EncodeArray(c.first) \o EncodeArray(SecondArray)
GeoOf(c) ==
    [data |-> IF SelectionBytes(c.bits) = NoSelection THEN <<>> ELSE GeoDictOf(c),
     columnSelection |-> SelectionBytes(c.bits)]

\* The entries a record may point at: none (0), the first array (1), the
\* second (2), and one byte past the end of the dictionary (3).
GeoEntries == 0..3
EntryPtr(c, e) ==
    CASE e = 2 -> Len(EncodeArray(c.first)) [] e = 3 -> Len(GeoDictOf(c)) [] OTHER -> 0
EntryLen(c, e) ==
    CASE e = 1 -> Len(EncodeArray(c.first)) [] e = 2 -> Len(EncodeArray(SecondArray))
      [] e = 3 -> 1 [] OTHER -> 0
EntryArray(c, e) == IF e = 1 THEN c.first ELSE SecondArray

\* The values of other_data: "" and "x".
OtherData == { <<>>, <<120>> }

(***************************************************************************)
(* The state.  r is the Reader, opened on the image of db.  The other      *)
(* variables record the history that the properties speak of: last is the  *)
(* call that completed last, with its argument, its outcome and the Init   *)
(* error that Find had already returned before it; initRuns counts the     *)
(* executions of Init since the reader was opened or closed (up to         *)
(* MaxRuns); hist says whether a key was ever set,                         *)
(* whether a Find without a key returned ErrKeyRequired, which Init error  *)
(* Find returned first, and whether Close was called.  pc, cur and         *)
(* onceHolder are the positions of concurrent callers, their calls and the *)
(* caller that is inside initOnce.Do (0 for none).                         *)
(***************************************************************************)
VARIABLES db, r, last, initRuns, hist, pc, cur, onceHolder

vars == <<db, r, last, initRuns, hist, pc, cur, onceHolder>>

NoCall == [op |-> "none", arg |-> <<>>, out |-> Failure("nil"), prior |-> "nil"]
NoHist == [keySet |-> FALSE, keyRequired |-> FALSE, failed |-> "nil", closed |-> FALSE]
\* The call of a caller and its locals: k, idx and hp are those of Init (the
\* step that comes next, idx and headerPtr of parseHeaderBlocks), err is what
\* Init returned; ip, l, h, m, sptr and eptr are those of Find and
\* searchHeader, hit says that its loop ended on the break; out is what the
\* call returns, early says that it is the stored error of Init.
NoCur ==
    [op |-> "none", arg |-> <<>>, k |-> 0, idx |-> 0, hp |-> IntZero, err |-> "nil",
     ip |-> <<>>, l |-> 0, h |-> 0, m |-> 0, hit |-> FALSE,
     sptr |-> IntZero, eptr |-> IntZero, out |-> Failure("nil"), early |-> FALSE]

\* A completed call.
Done(op, arg, out) == [op |-> op, arg |-> arg, out |-> out, prior |-> hist.failed]

Bump(n, ran) == IF ran /\ n < MaxRuns THEN n + 1 ELSE n

\* The history after a Find with the given result (early, out) on key.
AfterFind(key, early, out) ==
    [hist EXCEPT !.keyRequired = @ \/ (key = <<>> /\ out.err = "ErrKeyRequired"),
                 !.failed = IF @ = "nil" /\ early THEN out.err ELSE @]

\* The reader as NewReader returns it for the image of d.
Open(d) == NewReader(BuildImage(d)).r

\* The state after NewReader on one of the databases of D.
Opened(D) ==
    /\ db \in D
    /\ r = Open(db)
    /\ last = NoCall
    /\ initRuns = 0
    /\ hist = NoHist
    /\ pc = [p \in Procs |-> "idle"]
    /\ cur = [p \in Procs |-> NoCur]
    /\ onceHolder = 0

(***************************************************************************)
(* The calls of one caller, each a whole call.                             *)
(***************************************************************************)
\* An assignment to the exported field Key.
DoSetKey(key) ==
    /\ r' = [r EXCEPT !.Key = key]
    /\ last' = Done("SetKey", key, Failure("nil"))
    /\ hist' = [hist EXCEPT !.keySet = @ \/ key # <<>>]
    /\ UNCHANGED <<db, initRuns, pc, cur, onceHolder>>

\* The wrapper's SetOption.
DoSetOption(key) ==
    \E res \in SetOption(r, key) :
        /\ r' = res.r
        /\ last' = Done("SetOption", key, Failure(res.err))
        /\ initRuns' = Bump(initRuns, res.ran)
        /\ hist' = [hist EXCEPT !.keySet = @ \/ key # <<>>]
        /\ UNCHANGED <<db, pc, cur, onceHolder>>

\* Find.
DoFind(query) ==
    \E res \in Find(r, query) :
        /\ r' = res.r
        /\ last' = Done("Find", query, res.out)
        /\ initRuns' = Bump(initRuns, res.ran)
        /\ hist' = AfterFind(r.Key, res.early, res.out)
        /\ UNCHANGED <<db, pc, cur, onceHolder>>

\* Close.
DoClose ==
    /\ r' = Close(r)
    /\ last' = Done("Close", <<>>, Failure("nil"))
    /\ initRuns' = 0
    /\ hist' = [hist EXCEPT !.keyRequired = FALSE, !.failed = "nil", !.closed = TRUE]
    /\ UNCHANGED <<db, pc, cur, onceHolder>>

\* The lifecycle of a reader used by one caller.
Start == Opened(LifeDatabases)

Next ==
    \/ \E key \in Keys : DoSetKey(key)
    \/ \E key \in Keys : DoSetOption(key)
    \/ \E query \in LifeQueries : DoFind(query)
    \/ DoClose

Spec == Start /\ [][Next]_vars

\* Lookups on every database, the key having been assigned after NewReader.
StartFind ==
    /\ db \in Databases
    /\ r = [Open(db) EXCEPT !.Key = GoodKey]
    /\ last = NoCall
    /\ initRuns = 0
    /\ hist = [NoHist EXCEPT !.keySet = TRUE]
    /\ pc = [p \in Procs |-> "idle"]
    /\ cur = [p \in Procs |-> NoCur]
    /\ onceHolder = 0

NextFind == \E query \in Queries : DoFind(query)

SpecFind == StartFind /\ [][NextFind]_vars

(***************************************************************************)
(* Concurrent callers.  Neither Find nor SetOption takes a lock: the steps *)
(* of the callers interleave, and a step holds at most one access to what  *)
(* another caller can change under it.  A caller of Find reads inited,     *)
(* goes through initOnce.Do (the first to come executes Init step by step, *)
(* the others wait until it is done), reads initErr, searches the header   *)
(* arrays entry by entry, looks the address up and returns; a caller of    *)
(* the wrapper's SetOption stores the key, reads it back, executes Init    *)
(* step by step, outside initOnce, and returns.  What Init assigns besides *)
(* the header arrays and inited is derived from the image and a key that   *)
(* decrypts it, so that an Init beside a search assigns the values that    *)
(* the fields have: the reads of these fields go with the step they are in.*)
(***************************************************************************)
\* Find, line 161: the test of inited.
FindBegin(p, query) ==
    /\ pc[p] = "idle"
    /\ pc' = [pc EXCEPT ![p] = IF r.inited THEN "search" ELSE "once"]
    /\ cur' = [cur EXCEPT ![p] = [NoCur EXCEPT !.op = "Find", !.arg = query]]
    /\ UNCHANGED <<db, r, last, initRuns, hist, onceHolder>>

\* Find, line 162: initOnce.Do, entered when the Once is done or is free.
OnceDo(p) ==
    /\ pc[p] = "once"
    /\ IF r.initOnce
       THEN /\ pc' = [pc EXCEPT ![p] = "check"]
            /\ UNCHANGED <<cur, onceHolder>>
       ELSE /\ onceHolder = 0
            /\ onceHolder' = p
            /\ pc' = [pc EXCEPT ![p] = "init"]
            /\ cur' = [cur EXCEPT ![p].k = 1]
    /\ UNCHANGED <<db, r, last, initRuns, hist>>

\* A step of Init; after its last step, or the step that fails, Init has
\* returned err to its caller.
InitAdvance(p) ==
    /\ pc[p] = "init"
    /\ \E s \in InitStep(r, cur[p].k, cur[p].idx, cur[p].hp) :
        /\ r' = s.r
        /\ initRuns' = Bump(initRuns, cur[p].k = 1)
        /\ IF InitOver(s)
           THEN /\ pc' = [pc EXCEPT ![p] = "inited"]
                /\ cur' = [cur EXCEPT ![p].k = 0, ![p].idx = 0, ![p].hp = IntZero,
                                      ![p].err = s.err]
           ELSE /\ cur' = [cur EXCEPT ![p].k = s.k, ![p].idx = s.idx, ![p].hp = s.hp]
                /\ UNCHANGED pc
    /\ UNCHANGED <<db, last, hist, onceHolder>>

\* Find, lines 162 to 164, after Init: the error is stored and the Once is
\* done; a panic of Init ends the call, and the Once is done all the same.
InitEndOnce(p) ==
    /\ pc[p] = "inited" /\ cur[p].op = "Find"
    /\ r' = [r EXCEPT !.initOnce = TRUE,
                      !.initErr = IF cur[p].err = "panic" THEN @ ELSE cur[p].err]
    /\ onceHolder' = 0
    /\ IF cur[p].err = "panic"
       THEN /\ pc' = [pc EXCEPT ![p] = "return"]
            /\ cur' = [cur EXCEPT ![p].err = "nil", ![p].out = Failure("panic")]
       ELSE /\ pc' = [pc EXCEPT ![p] = "check"]
            /\ cur' = [cur EXCEPT ![p].err = "nil"]
    /\ UNCHANGED <<db, last, initRuns, hist>>

\* SetOption, lines 106 to 115, after Init: its error is dropped (what the
\* wrapper then reads and assigns is its own meta).
InitEndSetOption(p) ==
    /\ pc[p] = "inited" /\ cur[p].op = "SetOption"
    /\ pc' = [pc EXCEPT ![p] = "return"]
    /\ cur' = [cur EXCEPT ![p].err = "nil",
                          ![p].out = Failure(IF cur[p].err = "panic" THEN "panic" ELSE "nil")]
    /\ UNCHANGED <<db, r, last, initRuns, hist, onceHolder>>

\* Find, lines 165 to 167: the test of initErr.
CheckErr(p) ==
    /\ pc[p] = "check"
    /\ IF r.initErr # "nil"
       THEN /\ pc' = [pc EXCEPT ![p] = "return"]
            /\ cur' = [cur EXCEPT ![p].out = Failure(r.initErr), ![p].early = TRUE]
       ELSE /\ pc' = [pc EXCEPT ![p] = "search"]
            /\ UNCHANGED cur
    /\ UNCHANGED <<db, r, last, initRuns, hist, onceHolder>>

\* The position after the loop of searchHeader has moved l or h: the loop
\* goes on, or it is over and line 239 returns 0, 0, or line 243 is next.
AfterProbe(l, h) ==
    IF l <= h THEN "probe" ELSE IF BelowHeaderRange(l, h) THEN "lookup" ELSE "sptr"

\* Find, lines 169 to 175, and searchHeader, lines 212 to 216: the address
\* is normalised; without header entries searchHeader returns 0, 0.
SearchBegin(p) ==
    /\ pc[p] = "search"
    /\ IF r.headerLen = 0
       THEN /\ pc' = [pc EXCEPT ![p] = "lookup"]
            /\ cur' = [cur EXCEPT ![p].ip = Normalise(r, cur[p].arg)]
       ELSE /\ pc' = [pc EXCEPT ![p] = AfterProbe(0, r.headerLen - 1)]
            /\ cur' = [cur EXCEPT ![p].ip = Normalise(r, cur[p].arg),
                                  ![p].l = 0, ![p].h = r.headerLen - 1]
    /\ UNCHANGED <<db, r, last, initRuns, hist, onceHolder>>

\* searchHeader, lines 219 to 227: a pass of the loop reads headerIPs[m].
HeaderProbe(p) ==
    /\ pc[p] = "probe"
    /\ \E m \in {(cur[p].l + cur[p].h) \div 2} :
        IF ~IndexOK(r.headerIPs, m)
        THEN /\ pc' = [pc EXCEPT ![p] = "return"]
             /\ cur' = [cur EXCEPT ![p].out = Failure("panic")]
        ELSE \E cmp \in {BytesCompare(cur[p].ip, IPAt(r, m))} :
            IF cmp < 0
            THEN /\ pc' = [pc EXCEPT ![p] = AfterProbe(cur[p].l, m - 1)]
                 /\ cur' = [cur EXCEPT ![p].h = m - 1]
            ELSE IF cmp > 0
            THEN /\ pc' = [pc EXCEPT ![p] = AfterProbe(m + 1, cur[p].h)]
                 /\ cur' = [cur EXCEPT ![p].l = m + 1]
            ELSE /\ pc' = [pc EXCEPT ![p] = "sptr"]
                 /\ cur' = [cur EXCEPT ![p].m = m, ![p].hit = TRUE]
    /\ UNCHANGED <<db, r, last, initRuns, hist, onceHolder>>

\* The entries of headerPtrs that searchHeader reads into sptr and eptr: on
\* the break of the loop (lines 228 to 233), and after the loop (lines 244
\* to 252), where b = -1 stands for line 252, which adds indexBlockLength
\* to sptr.
PtrReads(r0, l, h, m, hit) ==
    IF hit THEN [a |-> IF m > 0 THEN m - 1 ELSE m, b |-> m]
    ELSE IF l < r0.headerLen THEN [a |-> l - 1, b |-> l]
    ELSE IF h >= 0 /\ h + 1 < r0.headerLen THEN [a |-> h, b |-> h + 1]
    ELSE [a |-> r0.headerLen - 1, b |-> -1]

\* searchHeader, lines 229, 231, 245, 248 and 251: sptr is read from
\* headerPtrs; m becomes the entry that eptr is read from.
ReadStart(p) ==
    /\ pc[p] = "sptr"
    /\ \E e \in {PtrReads(r, cur[p].l, cur[p].h, cur[p].m, cur[p].hit)} :
        IF ~IndexOK(r.headerPtrs, e.a)
        THEN /\ pc' = [pc EXCEPT ![p] = "return"]
             /\ cur' = [cur EXCEPT ![p].l = 0, ![p].h = 0, ![p].m = 0, ![p].hit = FALSE,
                                   ![p].out = Failure("panic")]
        ELSE /\ pc' = [pc EXCEPT ![p] = "eptr"]
             /\ cur' = [cur EXCEPT ![p].sptr = PtrAt(r, e.a), ![p].m = e.b]
    /\ UNCHANGED <<db, r, last, initRuns, hist, onceHolder>>

\* searchHeader, lines 233, 246, 249 and 252: eptr is read; after the break
\* of the loop, line 239 returns 0, 0 when l and h have stayed at 0.
ReadEnd(p) ==
    /\ pc[p] = "eptr"
    /\ IF cur[p].m >= 0 /\ ~IndexOK(r.headerPtrs, cur[p].m)
       THEN /\ pc' = [pc EXCEPT ![p] = "return"]
            /\ cur' = [cur EXCEPT ![p].l = 0, ![p].h = 0, ![p].m = 0, ![p].hit = FALSE,
                                  ![p].sptr = IntZero, ![p].out = Failure("panic")]
       ELSE /\ pc' = [pc EXCEPT ![p] = "lookup"]
            /\ cur' = [cur EXCEPT
                   ![p].l = 0, ![p].h = 0, ![p].m = 0, ![p].hit = FALSE,
                   ![p].sptr = IF cur[p].hit /\ BelowHeaderRange(cur[p].l, cur[p].h)
                               THEN IntZero ELSE @,
                   ![p].eptr = IF cur[p].hit /\ BelowHeaderRange(cur[p].l, cur[p].h)
                               THEN IntZero
                               ELSE IF cur[p].m >= 0 THEN PtrAt(r, cur[p].m)
                               ELSE IntAdd(cur[p].sptr, Small(r.indexBlockLength))]
    /\ UNCHANGED <<db, r, last, initRuns, hist, onceHolder>>

\* Find, lines 176 to 202: what Find returns for the pointers that
\* searchHeader has returned.
FindLookup(p) ==
    /\ pc[p] = "lookup"
    /\ pc' = [pc EXCEPT ![p] = "return"]
    /\ cur' = [cur EXCEPT
           ![p].l = 0, ![p].h = 0, ![p].ip = <<>>, ![p].sptr = IntZero, ![p].eptr = IntZero,
           ![p].out = FindHeaded(r, cur[p].ip,
                                 [sptr |-> cur[p].sptr, eptr |-> cur[p].eptr, panic |-> FALSE])]
    /\ UNCHANGED <<db, r, last, initRuns, hist, onceHolder>>

\* SetOption, line 100: the key of the option is stored.
SetOptionBegin(p, key) ==
    /\ pc[p] = "idle"
    /\ r' = [r EXCEPT !.Key = key]
    /\ pc' = [pc EXCEPT ![p] = "option"]
    /\ cur' = [cur EXCEPT ![p] = [NoCur EXCEPT !.op = "SetOption", !.arg = key]]
    /\ hist' = [hist EXCEPT !.keySet = @ \/ key # <<>>]
    /\ UNCHANGED <<db, last, initRuns, onceHolder>>

\* SetOption, line 105: the key is read back; Init is called unless it is
\* "".
SetOptionTest(p) ==
    /\ pc[p] = "option"
    /\ IF r.Key # <<>>
       THEN /\ pc' = [pc EXCEPT ![p] = "init"]
            /\ cur' = [cur EXCEPT ![p].k = 1]
       ELSE /\ pc' = [pc EXCEPT ![p] = "return"]
            /\ UNCHANGED cur
    /\ UNCHANGED <<db, r, last, initRuns, hist, onceHolder>>

\* Find and SetOption return.
Return(p) ==
    /\ pc[p] = "return"
    /\ last' = Done(cur[p].op, cur[p].arg, cur[p].out)
    /\ hist' = IF cur[p].op = "Find" THEN AfterFind(r.Key, cur[p].early, cur[p].out)
               ELSE hist
    /\ pc' = [pc EXCEPT ![p] = "idle"]
    /\ cur' = [cur EXCEPT ![p] = NoCur]
    /\ UNCHANGED <<db, r, initRuns, onceHolder>>

\* The positions of a caller of Find inside the search.
Searching(p) == pc[p] \in {"search", "probe", "sptr", "eptr", "lookup"}

StartConc == Opened(ConcDatabases)

NextConc ==
    \E p \in Procs :
        \/ \E query \in ConcQueries : FindBegin(p, query)
        \/ OnceDo(p)
        \/ InitAdvance(p)
        \/ InitEndOnce(p)
        \/ InitEndSetOption(p)
        \/ CheckErr(p)
        \/ SearchBegin(p)
        \/ HeaderProbe(p)
        \/ ReadStart(p)
        \/ ReadEnd(p)
        \/ FindLookup(p)
        \/ \E key \in ConcKeys : SetOptionBegin(p, key)
        \/ SetOptionTest(p)
        \/ Return(p)

SpecConc == StartConc /\ [][NextConc]_vars

(***************************************************************************)
(* ParseGeoInfo on its own: the reader holds the Geo of a case, and each   *)
(* step decodes one record.                                                *)
(***************************************************************************)
StartGeo ==
    /\ db \in GeoCases
    /\ r = [ZeroReader EXCEPT !.geo = GeoOf(db)]
    /\ last = NoCall
    /\ initRuns = 0
    /\ hist = NoHist
    /\ pc = [p \in Procs |-> "idle"]
    /\ cur = [p \in Procs |-> NoCur]
    /\ onceHolder = 0

\* r.geo.ParseGeoInfo on the record that points at entry e.
DoParseGeoInfo(e, wide, other) ==
    \E res \in {ParseGeoInfo(r.geo, EncodeRecord(EntryLen(db, e), EntryPtr(db, e), wide, other))} :
        /\ last' = Done("ParseGeoInfo", [entry |-> e, wide |-> wide, other |-> other],
                        [err |-> res.err, start |-> <<>>, end |-> <<>>, text |-> res.text])
        /\ UNCHANGED <<db, r, initRuns, hist, pc, cur, onceHolder>>

NextGeo == \E e \in GeoEntries, wide \in BOOLEAN, other \in OtherData : DoParseGeoInfo(e, wide, other)

SpecGeo == StartGeo /\ [][NextGeo]_vars

(***************************************************************************)
(* searchIndex on its own: the reader is initialised on a database, and    *)
(* each step searches a run of its index blocks, from block a to block b   *)
(* (counted from 1), for an address of the width of the database.          *)
(***************************************************************************)
\* The offset of index block j, from the super part.
IndexPtrOf(x, j) == IntAdd(x.firstIndexPtr, Small((j - 1) * x.indexBlockLength))

\* The addresses of the width w among the queries.
QueriesOf(w) == { q \in Queries : Len(q) = w }

StartIndex ==
    /\ db \in Databases
    /\ \E s \in Init([Open(db) EXCEPT !.Key = GoodKey]) : r = s.r
    /\ last = NoCall
    /\ initRuns = 1
    /\ hist = [NoHist EXCEPT !.keySet = TRUE]
    /\ pc = [p \in Procs |-> "idle"]
    /\ cur = [p \in Procs |-> NoCur]
    /\ onceHolder = 0

DoSearchIndex(a, b, ip) ==
    /\ a <= b /\ b <= Len(db.blocks)
    /\ \E res \in {searchIndex(r, IndexPtrOf(r, a), IndexPtrOf(r, b), ip)} :
           last' = Done("searchIndex", [a |-> a, b |-> b, ip |-> ip], res)
    /\ UNCHANGED <<db, r, initRuns, hist, pc, cur, onceHolder>>

NextIndex ==
    \E a \in 1..MaxBlocks, b \in 1..MaxBlocks, ip \in QueriesOf(r.ipLength) : DoSearchIndex(a, b, ip)

SpecIndex == StartIndex /\ [][NextIndex]_vars

(***************************************************************************)
(* searchHeader on its own: the reader is initialised on a database, and   *)
(* each step searches the header array for a query as Find normalises it.  *)
(***************************************************************************)
StartHeader ==
    /\ db \in HeaderDatabases
    /\ \E s \in Init([Open(db) EXCEPT !.Key = GoodKey]) : r = s.r
    /\ last = NoCall
    /\ initRuns = 1
    /\ hist = [NoHist EXCEPT !.keySet = TRUE]
    /\ pc = [p \in Procs |-> "idle"]
    /\ cur = [p \in Procs |-> NoCur]
    /\ onceHolder = 0

DoSearchHeader(query) ==
    /\ \E res \in {searchHeader(r, Normalise(r, query))} :
           last' = Done("searchHeader", Normalise(r, query), res)
    /\ UNCHANGED <<db, r, initRuns, hist, pc, cur, onceHolder>>

NextHeader == \E query \in Queries : DoSearchHeader(query)

SpecHeader == StartHeader /\ [][NextHeader]_vars

(***************************************************************************)
(* Properties.  They speak of the call that completed last and of the      *)
(* reader as the call left it.                                             *)
(***************************************************************************)
\* The query of the last call as Find normalises it, and what the two
\* searches give for it on the reader as it is.
LastIP == Normalise(r, last.arg)
LastHeader == searchHeader(r, LastIP)
LastIndex == searchIndex(r, LastHeader.sptr, LastHeader.eptr, LastIP)

\* The last call was a Find that searched an initialised reader.
Searched == last.op = "Find" /\ r.inited /\ last.out.err # "panic"

\* The readers that Init can leave when it is given the key of the database,
\* and the outcomes of Find on them.
Sealed == { s.r : s \in Init([Open(db) EXCEPT !.Key = GoodKey]) }
Lookup(query) == { FindSearch(x, query) : x \in Sealed }

\* The fields that Init populates.
Populated(x) ==
    [offset |-> x.offset, decRandomBytesLength |-> x.decRandomBytesLength,
     dbType |-> x.dbType, firstIndexPtr |-> x.firstIndexPtr,
     totalHeaderBlockSize |-> x.totalHeaderBlockSize, lastIndexPtr |-> x.lastIndexPtr,
     ipLength |-> x.ipLength, indexBlockLength |-> x.indexBlockLength, geo |-> x.geo,
     headerIPs |-> x.headerIPs, headerPtrs |-> x.headerPtrs, headerLen |-> x.headerLen]

\* The stored range blk holds ip; two ranges have no address in common.
InBlock(ip, blk) ==
    Len(ip) = Len(blk.s) /\ BytesCompare(blk.s, ip) <= 0 /\ BytesCompare(ip, blk.e) <= 0

SameStoredRange(a, b) ==
    \E j \in 1..Len(db.blocks) : InBlock(a, db.blocks[j]) /\ InBlock(b, db.blocks[j])

Disjoint(a, b) == BytesCompare(a.end, b.start) < 0 \/ BytesCompare(b.end, a.start) < 0

\* C1: Init is executed exactly once on a reader, however many callers call
\* Find at the same time, and also when the key comes through the wrapper's
\* SetOption: never more than once, and once when a Find has returned.
C1_InitExactlyOnce == initRuns <= 1 /\ (last.op = "Find" => initRuns = 1)

\* C2: once Find has returned the error of a failed Init, every later Find on
\* the reader (until Close) returns that same error; the database is one
\* without damage.
C2_FailureReplayed ==
    (last.op = "Find" /\ last.prior # "nil" /\ db.corrupt = "none") => last.out.err = last.prior

\* C3: a Find on a reader that never had a key returns ErrKeyRequired; once a
\* Find without a key has returned ErrKeyRequired and the valid key has been
\* set on the same reader, a Find that the database answers succeeds.
C3_KeyThenSuccess ==
    /\ (last.op = "Find" /\ ~hist.keySet /\ ~hist.closed) => last.out.err = "ErrKeyRequired"
    /\ (/\ last.op = "Find" /\ hist.keyRequired /\ ~hist.closed
        /\ r.Key = GoodKey /\ db.corrupt = "none"
        /\ \A out \in Lookup(last.arg) : out.err = "nil") => last.out.err = "nil"

\* C4: the range of every successful Find holds the query as Find normalises
\* it: start <= ip <= end in the order of bytes.Compare.
C4_RangeHoldsQuery ==
    (last.op = "Find" /\ last.out.err = "nil")
        => BytesCompare(last.out.start, LastIP) <= 0 /\ BytesCompare(LastIP, last.out.end) <= 0

\* A Find has returned the range and the record of a stored block that holds
\* the query strictly inside.
C4_Witness ==
    /\ last.op = "Find" /\ last.out.err = "nil"
    /\ \E j \in 1..Len(db.blocks) :
           /\ last.out = Success(db.blocks[j].s, db.blocks[j].e, PayloadText(j - 1))
           /\ BytesCompare(db.blocks[j].s, LastIP) < 0
           /\ BytesCompare(LastIP, db.blocks[j].e) < 0

\* C5: on an IPv4 or IPv6 database with sorted and disjoint ranges, a query
\* in the same stored range as the last one gets the identical result, and
\* the ranges of any two successful queries are identical or disjoint.
C5_SameRangeSameResult ==
    (Searched /\ db.dbType \in {IPv4, IPv6}) =>
        \A query \in Queries :
            /\ SameStoredRange(LastIP, Normalise(r, query)) => FindSearch(r, query) = last.out
            /\ (last.out.err = "nil" /\ FindSearch(r, query).err = "nil") =>
                   \/ /\ FindSearch(r, query).start = last.out.start
                      /\ FindSearch(r, query).end = last.out.end
                   \/ Disjoint(FindSearch(r, query), last.out)

\* C6: no call on an open reader ends in a crash, whatever offsets and
\* lengths the image holds.
C6_NoCrash == (~hist.closed /\ last.op \in {"Find", "SetOption"}) => last.out.err # "panic"

\* The zero address of the family of the database.
OwnZero == IF r.dbType = IPv4 THEN <<0, 0, 0, 0>> ELSE IPv6zero

\* The three forms of a zero address: 0.0.0.0 in four bytes, 0.0.0.0 in
\* sixteen (::ffff:0.0.0.0) and ::.
ZeroForms == { <<0, 0, 0, 0>>, Rep(0, 10) \o <<255, 255, 0, 0, 0, 0>>, Rep(0, 16) }

\* The header search of the last Find gave the start pointer 0.
HeaderMiss == Searched /\ ~LastHeader.panic /\ LastHeader.sptr = IntZero

\* C7, as the specification states it: when the header search gives the
\* start pointer 0, Find succeeds for the zero address of the database's own
\* family only, with the range [ip, ip] and "DataNotFound"; every other query
\* gets ErrInvalidDatabase.
C7_OwnFamilyZeroOnly ==
    HeaderMiss =>
        last.out = IF LastIP = OwnZero THEN Success(LastIP, LastIP, TempDataNotFound)
                   ELSE Failure("ErrInvalidDatabase")

\* C7, amended: when the header search gives the start pointer 0, Find
\* succeeds, with the range [ip, ip] and "DataNotFound", exactly when the
\* normalised query is 0.0.0.0 (in four bytes or as ::ffff:0.0.0.0) or ::,
\* whatever the family of the database; every other query gets
\* ErrInvalidDatabase.
C7_AnyZero ==
    HeaderMiss =>
        last.out = IF LastIP \in ZeroForms THEN Success(LastIP, LastIP, TempDataNotFound)
                   ELSE Failure("ErrInvalidDatabase")

\* The header search of an IPv6 database gave 0 for the query 0.0.0.0, and
\* Find succeeded.
C7_Witness ==
    /\ HeaderMiss /\ r.dbType = IPv6 /\ LastIP = Rep(0, 10) \o <<255, 255, 0, 0, 0, 0>>
    /\ last.out.err = "nil"

\* The header search of the last Find gave a start pointer other than 0 and
\* the index search gave no block.
IndexMiss ==
    /\ Searched /\ ~LastHeader.panic /\ LastHeader.sptr # IntZero
    /\ ~LastIndex.panic /\ LastIndex.dataPtr = IntZero

\* C8, as the specification states it: when the header search gives a start
\* pointer and the index search finds no block, Find returns
\* ErrInvalidDatabase, except on an IPv6 database for the query 0.0.0.0, which
\* gets the range from :: to the last IPv4 address in its sixteen-byte form
\* and "DataNotFound".
C8_RangeFromUnspecified ==
    IndexMiss =>
        last.out = IF r.dbType = IPv6 /\ LastIP = Rep(0, 10) \o <<255, 255, 0, 0, 0, 0>>
                   THEN Success(Rep(0, 16), To16(LastIPv4), TempDataNotFound)
                   ELSE Failure("ErrInvalidDatabase")

\* C8, amended: the range of the exception starts at ::ffff:0.0.0.0, the
\* sixteen-byte form of 0.0.0.0, and the exception is for the db_type 1.
C8_RangeOfMappedIPv4 ==
    IndexMiss =>
        last.out = IF r.dbType = 1 /\ LastIP = Rep(0, 10) \o <<255, 255, 0, 0, 0, 0>>
                   THEN Success(Rep(0, 10) \o <<255, 255, 0, 0, 0, 0>>, To16(LastIPv4),
                                TempDataNotFound)
                   ELSE Failure("ErrInvalidDatabase")

\* The index search of an IPv6 database found no block for 0.0.0.0, and Find
\* succeeded.
C8_Witness == IndexMiss /\ last.out.err = "nil"

\* C9: a caller of Find that is about to search finds the reader as a
\* complete Init leaves it, also when Init is called by SetOption.
C9_SearchOnSealedReader ==
    \A p \in Procs : Searching(p) => \E x \in Sealed : Populated(r) = Populated(x)

\* C10: Close releases the image and what was derived from it, clears the
\* initialised flag and the stored error and re-arms the Once; a Find after
\* Close returns a result or an error.
C10_CloseThenFind ==
    /\ last.op = "Close" =>
           /\ r.data = <<>> /\ r.headerIPs = NilArray /\ r.headerPtrs = NilArray
           /\ r.geo = NilGeo /\ ~r.inited /\ r.initErr = "nil" /\ ~r.initOnce
    /\ (last.op = "Find" /\ hist.closed /\ db.corrupt = "none") => last.out.err # "panic"

\* What the specification gives for the array elems under the set bits of
\* selected bits, from element i (counted from 1) on: element i is array
\* index i - 1 and goes by bit i.
RECURSIVE Projected(_, _, _)
Projected(elems, bits, i) ==
    IF i > Len(elems) THEN <<>>
    ELSE (IF i \in bits
          THEN (IF elems[i] = <<>> THEN <<110, 117, 108, 108>> ELSE elems[i]) \o <<9>>
          ELSE <<>>) \o Projected(elems, bits, i + 1)

\* C11: ParseGeoInfo returns other_data unchanged when geo_pos_mix_size is 0;
\* otherwise, the entry lying inside the dictionary, it returns the selected
\* elements of the array (element i by bit i + 1, "" as "null"), each with a
\* TAB after it, one more TAB and other_data; bit 0 has no part in it.
C11_ProjectedColumns ==
    (/\ last.op = "ParseGeoInfo" /\ last.arg.entry \in {0, 1, 2}
     /\ last.arg.entry # 0 =>
            EntryPtr(db, last.arg.entry) + EntryLen(db, last.arg.entry) <= Len(r.geo.data)) =>
        /\ last.out.err = "nil"
        /\ last.out.text =
               IF last.arg.entry = 0 THEN last.arg.other
               ELSE Projected(EntryArray(db, last.arg.entry), db.bits \ {0}, 1)
                        \o <<9>> \o last.arg.other

\* A record pointed at an array of two strings, the first empty and taken
\* ("null"), the second left out, bit 0 being set.
C11_Witness ==
    /\ last.op = "ParseGeoInfo" /\ last.arg.entry = 1
    /\ Len(db.first) = 2 /\ db.first[1] = <<>> /\ db.bits = {0, 1}
    /\ last.out.text = <<110, 117, 108, 108, 9, 9>> \o last.arg.other

\* The start address of header entry m as the query is compared with it: in
\* the width of the normalised query (the leading 4 bytes for IPv4).
HeaderKey(m) == SubSeq(IPAt(r, m), 1, Len(LastIP))

\* C12: when the normalised query of a Find equals the start address of
\* header entry m, searchHeader returns the pointer of entry m - 1 (of entry
\* 0 when m = 0) and the pointer of entry m.
C12_ExactMatchPointers ==
    (Searched /\ LastIP # <<>>) =>
        \A m \in 0..(r.headerLen - 1) :
            HeaderKey(m) = LastIP =>
                /\ ~LastHeader.panic
                /\ LastHeader.sptr = PtrAt(r, IF m > 0 THEN m - 1 ELSE 0)
                /\ LastHeader.eptr = PtrAt(r, m)

\* The blocks among a..b that hold ip.
CoveringBlocks(a, b, ip) == { j \in a..b : InBlock(ip, db.blocks[j]) }

\* C13: searchIndex on the blocks a..b of a database with sorted and
\* disjoint ranges gives the start, the end, the data pointer and the data
\* length of the block that holds the address (the pointer and the length
\* are those of the record of that block) when there is one, and the data
\* pointer 0 when there is none.
C13_IndexSearchFindsBlock ==
    last.op = "searchIndex" =>
        /\ ~last.out.panic
        /\ \A j \in CoveringBlocks(last.arg.a, last.arg.b, last.arg.ip) :
               /\ last.out.sip = db.blocks[j].s /\ last.out.eip = db.blocks[j].e
               /\ last.out.dataPtr # IntZero /\ last.out.dataLen = Len(Payload(j - 1))
               /\ Slice(r.data, Val(r.offset) + Val(last.out.dataPtr),
                         Val(r.offset) + Val(last.out.dataPtr) + last.out.dataLen)
                      = Payload(j - 1)
        /\ CoveringBlocks(last.arg.a, last.arg.b, last.arg.ip) = {} =>
               last.out.dataPtr = IntZero

\* A search of three blocks has found the address strictly inside the last.
C13_Witness ==
    /\ last.op = "searchIndex" /\ last.arg.a = 1 /\ last.arg.b = 3
    /\ BytesCompare(db.blocks[3].s, last.arg.ip) < 0
    /\ BytesCompare(last.arg.ip, db.blocks[3].e) < 0
    /\ last.out.sip = db.blocks[3].s /\ last.out.dataPtr # IntZero

\* The start address of header entry m in the width of the address ip, and
\* the entries whose start address is below ip.
KeyOf(m, ip) == SubSeq(IPAt(r, m), 1, Len(ip))
EntriesBelow(ip) == { m \in 0..(r.headerLen - 1) : BytesCompare(KeyOf(m, ip), ip) < 0 }

\* C14: for a query equal to no header start address, with k the number of
\* the entries below it (the least index of an entry above it), searchHeader
\* returns (0, 0) when k = 0; the pointers of the entries k - 1 and k when
\* 0 < k < headerLen; and the pointer of the last entry and that pointer plus
\* the width of an index block when k = headerLen; (0, 0) in the first case
\* only.
C14_NoMatchPointers ==
    (last.op = "searchHeader" /\ \A m \in 0..(r.headerLen - 1) : KeyOf(m, last.arg) # last.arg) =>
        /\ ~last.out.panic
        /\ Cardinality(EntriesBelow(last.arg)) = 0 =>
               last.out.sptr = IntZero /\ last.out.eptr = IntZero
        /\ (0 < Cardinality(EntriesBelow(last.arg))
                /\ Cardinality(EntriesBelow(last.arg)) < r.headerLen) =>
               /\ last.out.sptr = PtrAt(r, Cardinality(EntriesBelow(last.arg)) - 1)
               /\ last.out.eptr = PtrAt(r, Cardinality(EntriesBelow(last.arg)))
               /\ last.out.sptr # IntZero
        /\ (r.headerLen > 0 /\ Cardinality(EntriesBelow(last.arg)) = r.headerLen) =>
               /\ last.out.sptr = PtrAt(r, r.headerLen - 1)
               /\ last.out.eptr = IntAdd(PtrAt(r, r.headerLen - 1), Small(r.indexBlockLength))
               /\ last.out.sptr # IntZero

\* A query strictly between the first and the second of three header
\* entries has got their two pointers.
C14_Witness ==
    /\ last.op = "searchHeader" /\ r.headerLen = 3
    /\ EntriesBelow(last.arg) = {0}
    /\ \A m \in 0..2 : KeyOf(m, last.arg) # last.arg
    /\ last.out.sptr = PtrAt(r, 0) /\ last.out.eptr = PtrAt(r, 1) /\ last.out.sptr # last.out.eptr

\* Bit 0 of db_type is clear: the IPv4 family.
BitZeroClear == r.dbType % 2 = 0

\* C15: after a successful Init, whatever the db_type, the family that bit 0
\* of db_type selects (width 4 and index blocks of 13 bytes, or width 16 and
\* index blocks of 37) is the family by which Find normalises the query
\* (To4 or To16) and admits the special case of the IPv6 database, and the
\* family that IsIPv4 and IsIPv6 report, exactly one of the two being true.
C15_OneFamily ==
    (last.op = "Find" /\ r.inited) =>
        /\ r.ipLength = (IF BitZeroClear THEN IPv4Length ELSE IPv6Length)
        /\ r.indexBlockLength =
               (IF BitZeroClear THEN IPv4IndexBlockLength ELSE IPv6IndexBlockLength)
        /\ \A query \in Queries :
               Normalise(r, query) = (IF BitZeroClear THEN To4(query) ELSE To16(query))
        /\ IsSkippedIPv4(r, IPv4zero) = ~BitZeroClear
        /\ IsIPv4(r) = BitZeroClear
        /\ IsIPv6(r) = ~BitZeroClear

\* The index blocks that the last Find read.
LastReads == searchIndexReads(r, LastHeader.sptr, LastHeader.eptr, LastIP)

\* C16: on an IPv4 or IPv6 database whose header pointers lie between the
\* first and the last index block, the last entry pointing at the last
\* block, every index block that a Find reads lies between first_index_ptr
\* and last_index_ptr: the Geo Map Block, at last_index_ptr plus the width of
\* an index block, is never read as an index block.
C16_ReadsWithinIndex ==
    (Searched /\ r.dbType \in {IPv4, IPv6} /\ ~LastHeader.panic /\ LastHeader.sptr # IntZero) =>
        \A p \in LastReads : IntLeq(r.firstIndexPtr, p) /\ IntLeq(p, r.lastIndexPtr)

=============================================================================
